---- MODULE Spec2Model ----
(***************************************************************************)
(* Model of src/src/index.js (cancanneed-network, a Cloudflare Worker):    *)
(* the ISP classifier identifyISP and the colo translator translateColo.   *)
(*                                                                         *)
(* A JavaScript string is modelled as the sequence of its characters: an   *)
(* ASCII character is the one-character string "a", any other character    *)
(* is named by its code point, "U+4E2D".  JavaScript values carry their    *)
(* type in the field t, so that null, undefined, strings and objects can   *)
(* be told apart.                                                          *)
(***************************************************************************)
EXTENDS Integers, Sequences, FiniteSets, TLC

VARIABLES
    pc,        \* position of the request being handled
    rawIsp,    \* identifyISP's first argument: the characters of the organization string
    asn,       \* identifyISP's second argument
    ispInfo,   \* what identifyISP returned
    coloCode,  \* translateColo's argument: the characters of the colo code
    nodeInfo,  \* what translateColo returned
    request,   \* the request the worker's fetch handler was given
    env,       \* the worker's environment: its secrets
    ran,       \* the handlers the router has called for the request, in order
    response,  \* the Response returned for the request
    upstream,  \* the requests sent to the completion API, in order
    heap,      \* the objects the calls of a running worker have created
    journal,   \* the calls made in a running worker, in order, with their results
    writes,    \* how many times a caller has written to an object it was given
    bundled,   \* the Response of the bundled build's handleGetIPInfo for the request
    stream,    \* the bytes of the upstream body the analyze pump reads
    delivered, \* how many of them reader.read() has delivered
    failing,   \* whether reading the upstream body fails instead of ending
    pending,   \* the bytes of an unfinished character the decoder holds
    buffer,    \* the pump's buffer: decoded text not yet cut into lines
    output,    \* the bytes written to the client, in order
    writerLog, \* the calls made on the output writer, in order
    script,    \* whether the script of the page the browser loaded runs
    lookups,   \* where the page's IPv6, IPv4 and geo lookups are
    dom,       \* the text of the page's ipv6-addr, ipv4-addr and ext-loc elements
    analyses,  \* the userInfo of each startAiAnalysis call of the page, in order
    currentTargetId, \* the page's ping target
    pingData,  \* the page's ping history
    measured,  \* for each entry of pingData, the target it was measured against
    inFlight,  \* for each target, the doRealTimePing calls waiting for its fetch
    pingInterval, \* the page's pingInterval variable
    timers,    \* the interval timers of the page that are active
    issued,    \* how many interval timers the page has set
    hidden,    \* document.hidden
    lastChange \* the last visibilitychange the page has had

callVars == <<rawIsp, asn, ispInfo, coloCode, nodeInfo>>

workerVars == <<request, env, ran, response, upstream>>

heapVars == <<heap, journal, writes>>

pumpVars == <<stream, delivered, failing, pending, buffer, output, writerLog>>

clientVars == <<script, lookups, dom, analyses, currentTargetId, pingData, measured,
                inFlight, pingInterval, timers, issued, hidden, lastChange>>

laterVars == <<bundled, pumpVars, clientVars>>

vars == <<pc, callVars, workerVars, heapVars, laterVars>>

----------------------------------------------------------------------------
(* JavaScript values and the built-ins the two functions use.              *)

\* The characters of an ASCII literal.
S(str) == [i \in 1..Len(str) |-> SubSeq(str, i, i)]

Str(chars) == [t |-> "string", v |-> chars]
Null == [t |-> "null"]
Undefined == [t |-> "undefined"]
Num(n) == [t |-> "number", v |-> n]
NaN == [t |-> "NaN"]

\* No request is being handled.
WorkerIdle ==
    /\ request = Undefined
    /\ env = Undefined
    /\ ran = <<>>
    /\ response = Undefined
    /\ upstream = <<>>

\* No object has been created.
HeapIdle ==
    /\ heap = <<>>
    /\ journal = <<>>
    /\ writes = 0

\* No page is loaded in a browser.
ClientIdle ==
    /\ script = "none"
    /\ lookups = Undefined
    /\ dom = Undefined
    /\ analyses = <<>>
    /\ currentTargetId = 0
    /\ pingData = <<>>
    /\ measured = <<>>
    /\ inFlight = <<>>
    /\ pingInterval = Null
    /\ timers = {}
    /\ issued = 0
    /\ hidden = FALSE
    /\ lastChange = "none"

\* Nothing but the worker's own handlers and calls is running.
LaterIdle ==
    /\ bundled = Undefined
    /\ stream = <<>>
    /\ delivered = 0
    /\ failing = FALSE
    /\ pending = <<>>
    /\ buffer = <<>>
    /\ output = <<>>
    /\ writerLog = <<>>
    /\ ClientIdle

\* ToBoolean, for the operands these functions give to ||.
Truthy(val) ==
    CASE val.t = "undefined" -> FALSE
      [] val.t = "null" -> FALSE
      [] val.t = "string" -> val.v # <<>>
      [] val.t = "number" -> val.v # 0
      [] val.t = "NaN" -> FALSE
      [] OTHER -> TRUE

\* Mutant: a && b.
OrAsAnd(a, b) == IF Truthy(a) THEN b ELSE a

\* a || b
Or(a, b) == IF Truthy(a) THEN a ELSE b

AsciiUpper == S("ABCDEFGHIJKLMNOPQRSTUVWXYZ")
AsciiLower == S("abcdefghijklmnopqrstuvwxyz")

IndexIn(alphabet, c) == CHOOSE i \in 1..Len(alphabet) : alphabet[i] = c

\* String.prototype.toLowerCase, one character at a time: the ASCII capitals,
\* and the two characters of the model's alphabet whose lower case is not
\* themselves: KELVIN SIGN U+212A -> k, and U+0130 (capital I with dot) ->
\* i followed by COMBINING DOT ABOVE U+0307.
toLowerCaseChar(c) ==
    IF \E i \in 1..26 : AsciiUpper[i] = c THEN <<AsciiLower[IndexIn(AsciiUpper, c)]>>
    ELSE IF c = "U+212A" THEN <<"k">>
    ELSE IF c = "U+0130" THEN <<"i", "U+0307">>
    ELSE <<c>>

\* Mutant: const isp = rawIsp, the lower-casing left out.
toLowerCaseSkipped(s) == s

RECURSIVE toLowerCase(_)
toLowerCase(s) ==
    IF s = <<>> THEN <<>> ELSE toLowerCaseChar(Head(s)) \o toLowerCase(Tail(s))

\* String.prototype.toUpperCase: the ASCII small letters, U+00DF (sharp s) ->
\* SS, and U+0131 (dotless i) -> I.
toUpperCaseChar(c) ==
    IF \E i \in 1..26 : AsciiLower[i] = c THEN <<AsciiUpper[IndexIn(AsciiLower, c)]>>
    ELSE IF c = "U+00DF" THEN <<"S", "S">>
    ELSE IF c = "U+0131" THEN <<"I">>
    ELSE <<c>>

RECURSIVE toUpperCase(_)
toUpperCase(s) ==
    IF s = <<>> THEN <<>> ELSE toUpperCaseChar(Head(s)) \o toUpperCase(Tail(s))

\* String.prototype.includes: t occurs in s as a run of consecutive characters.
includes(s, t) ==
    \E i \in 0..(Len(s) - Len(t)) : \A j \in 1..Len(t) : s[i + j] = t[j]

----------------------------------------------------------------------------
(* identifyISP, index.js:869-928.                                          *)

Obj(name, color, bg) ==
    [t |-> "object", name |-> Str(name), color |-> Str(color), bg |-> Str(bg)]

\* Mutant: the rule without its second token.
matchChinaTelecomChinanetOnly(isp) ==
    includes(isp, S("chinanet"))

\* index.js:876-877  中国电信
matchChinaTelecom(isp) ==
    includes(isp, S("chinanet")) \/ includes(isp, S("telecom"))
ChinaTelecom ==
    Obj(<<"U+4E2D", "U+56FD", "U+7535", "U+4FE1">>, S("#0066CC"), S("rgba(0, 102, 204, 0.1)"))
\* index.js:878-879  中国联通
matchChinaUnicom(isp) ==
    includes(isp, S("unicom"))
ChinaUnicom ==
    Obj(<<"U+4E2D", "U+56FD", "U+8054", "U+901A">>, S("#E60012"), S("rgba(230, 0, 18, 0.1)"))
\* index.js:880-881  中国移动
matchChinaMobile(isp) ==
    includes(isp, S("mobile")) \/ includes(isp, S("cmcc")) \/ includes(isp, S("tietong"))
ChinaMobile ==
    Obj(<<"U+4E2D", "U+56FD", "U+79FB", "U+52A8">>, S("#0085D0"), S("rgba(0, 133, 208, 0.1)"))
\* index.js:882-883  中国广电
matchChinaBroadnet(isp) ==
    includes(isp, S("broadnet")) \/ includes(isp, S("cable")) \/ includes(isp, S("gehua"))
ChinaBroadnet ==
    Obj(<<"U+4E2D", "U+56FD", "U+5E7F", "U+7535">>, S("#7CB342"), S("rgba(124, 179, 66, 0.15)"))
\* index.js:884-885  中国教育网
matchCernet(isp) ==
    includes(isp, S("cernet"))
Cernet ==
    Obj(<<"U+4E2D", "U+56FD", "U+6559", "U+80B2", "U+7F51">>, S("#00A0E9"), S("rgba(0, 160, 233, 0.1)"))
\* index.js:886-887  长城/鹏博士
matchDrPeng(isp) ==
    includes(isp, S("dr.peng")) \/ includes(isp, S("great wall"))
DrPeng ==
    Obj(<<"U+957F", "U+57CE">> \o S("/") \o <<"U+9E4F", "U+535A", "U+58EB">>, S("#E85928"), S("rgba(232, 89, 40, 0.1)"))
\* Mutant: the rule with "hk" for its token "hkt".
matchHKTByPrefix(isp) ==
    includes(isp, S("hk")) \/ includes(isp, S("pccw"))

\* index.js:890-891  HKT (香港电讯)
matchHKT(isp) ==
    includes(isp, S("hkt")) \/ includes(isp, S("pccw"))
HKT ==
    Obj(S("HKT (") \o <<"U+9999", "U+6E2F", "U+7535", "U+8BAF">> \o S(")"), S("#00539F"), S("rgba(0, 83, 159, 0.1)"))
\* index.js:892-893  HKBN (香港宽频)
matchHKBN(isp) ==
    includes(isp, S("hkbn"))
HKBN ==
    Obj(S("HKBN (") \o <<"U+9999", "U+6E2F", "U+5BBD", "U+9891">> \o S(")"), S("#743C8F"), S("rgba(116, 60, 143, 0.1)"))
\* index.js:894-895  HGC
matchHGC(isp) ==
    includes(isp, S("hgc"))
HGC ==
    Obj(S("HGC"), S("#E3007F"), S("rgba(227, 0, 127, 0.1)"))
\* Mutant: the colour changed, the background left as it was.
CMHKColourOnly ==
    Obj(S("CMHK"), S("#0085D1"), S("rgba(0, 133, 208, 0.1)"))

\* Mutant: the rule copied from the one before it, its name left unchanged.
CMHKNamedHGC ==
    Obj(S("HGC"), S("#0085D0"), S("rgba(0, 133, 208, 0.1)"))

\* index.js:896-897  CMHK
matchCMHK(isp) ==
    includes(isp, S("cmhk"))
CMHK ==
    Obj(S("CMHK"), S("#0085D0"), S("rgba(0, 133, 208, 0.1)"))
\* index.js:898-899  CTM (澳门电讯)
matchCTM(isp) ==
    includes(isp, S("ctm"))
CTM ==
    Obj(S("CTM (") \o <<"U+6FB3", "U+95E8", "U+7535", "U+8BAF">> \o S(")"), S("#00A651"), S("rgba(0, 166, 81, 0.1)"))
\* Mutant: the rule without its second token.
matchHiNetChunghwaOnly(isp) ==
    includes(isp, S("chunghwa"))

\* index.js:900-901  中华电信 (HiNet)
matchHiNet(isp) ==
    includes(isp, S("chunghwa")) \/ includes(isp, S("hinet"))
HiNet ==
    Obj(<<"U+4E2D", "U+534E", "U+7535", "U+4FE1">> \o S(" (HiNet)"), S("#2E57A6"), S("rgba(46, 87, 166, 0.1)"))
\* index.js:904-905  阿里云
matchAlibaba(isp) ==
    includes(isp, S("alibaba")) \/ includes(isp, S("aliyun"))
Alibaba ==
    Obj(<<"U+963F", "U+91CC", "U+4E91">>, S("#FF6A00"), S("rgba(255, 106, 0, 0.1)"))
\* index.js:906-907  腾讯云
matchTencent(isp) ==
    includes(isp, S("tencent"))
Tencent ==
    Obj(<<"U+817E", "U+8BAF", "U+4E91">>, S("#0052D9"), S("rgba(0, 82, 217, 0.1)"))
\* index.js:908-909  华为云
matchHuawei(isp) ==
    includes(isp, S("huawei"))
Huawei ==
    Obj(<<"U+534E", "U+4E3A", "U+4E91">>, S("#C7000B"), S("rgba(199, 0, 11, 0.1)"))
\* index.js:910-911  Google Cloud
matchGoogle(isp) ==
    includes(isp, S("google"))
Google ==
    Obj(S("Google Cloud"), S("#4285F4"), S("rgba(66, 133, 244, 0.1)"))
\* index.js:912-913  AWS
matchAWS(isp) ==
    includes(isp, S("amazon")) \/ includes(isp, S("aws"))
AWS ==
    Obj(S("AWS"), S("#FF9900"), S("rgba(255, 153, 0, 0.1)"))
\* index.js:914-915  Microsoft Azure
matchAzure(isp) ==
    includes(isp, S("microsoft")) \/ includes(isp, S("azure"))
Azure ==
    Obj(S("Microsoft Azure"), S("#0078D4"), S("rgba(0, 120, 212, 0.1)"))
\* index.js:916-917  Oracle Cloud
matchOracle(isp) ==
    includes(isp, S("oracle"))
Oracle ==
    Obj(S("Oracle Cloud"), S("#C74634"), S("rgba(199, 70, 52, 0.1)"))
\* index.js:918-919  DigitalOcean
matchDigitalOcean(isp) ==
    includes(isp, S("digitalocean"))
DigitalOcean ==
    Obj(S("DigitalOcean"), S("#0080FF"), S("rgba(0, 128, 255, 0.1)"))
\* index.js:920-921  Vultr
matchVultr(isp) ==
    includes(isp, S("vultr"))
Vultr ==
    Obj(S("Vultr"), S("#0057E7"), S("rgba(0, 87, 231, 0.1)"))
\* index.js:922-923  Linode
matchLinode(isp) ==
    includes(isp, S("linode"))
Linode ==
    Obj(S("Linode"), S("#02B159"), S("rgba(2, 177, 89, 0.1)"))
\* index.js:924-925  Cloudflare WARP
matchCloudflare(isp) ==
    includes(isp, S("cloudflare"))
Cloudflare ==
    Obj(S("Cloudflare WARP"), S("#F38020"), S("rgba(243, 128, 32, 0.1)"))


\* index.js:873: "未知网络"
UnknownNetwork == <<"U+672A", "U+77E5", "U+7F51", "U+7EDC">>

\* Mutant: name: isp || ..., the lower-cased string for the one supplied.
DefaultResultLowerCased(rawIsp_) ==
    [t |-> "object",
     name |-> Or(Str(toLowerCase(rawIsp_)), Str(UnknownNetwork)),
     color |-> Str(S("#555555")),
     bg |-> Str(S("rgba(85, 85, 85, 0.1)"))]

\* Mutant: name: rawIsp, without the label for the empty string.
DefaultResultNoLabel(rawIsp_) ==
    [t |-> "object",
     name |-> Str(rawIsp_),
     color |-> Str(S("#555555")),
     bg |-> Str(S("rgba(85, 85, 85, 0.1)"))]

\* index.js:873: let result = { name: rawIsp || "未知网络", color: ..., bg: ... }
DefaultResult(rawIsp_) ==
    [t |-> "object",
     name |-> Or(Str(rawIsp_), Str(UnknownNetwork)),
     color |-> Str(S("#555555")),
     bg |-> Str(S("rgba(85, 85, 85, 0.1)"))]

\* index.js:875-927: the guarded returns, in source order.
MatchRules(isp, result) ==
    IF matchChinaTelecom(isp) THEN ChinaTelecom
    ELSE IF matchChinaUnicom(isp) THEN ChinaUnicom
    ELSE IF matchChinaMobile(isp) THEN ChinaMobile
    ELSE IF matchChinaBroadnet(isp) THEN ChinaBroadnet
    ELSE IF matchCernet(isp) THEN Cernet
    ELSE IF matchDrPeng(isp) THEN DrPeng
    ELSE IF matchHKT(isp) THEN HKT
    ELSE IF matchHKBN(isp) THEN HKBN
    ELSE IF matchHGC(isp) THEN HGC
    ELSE IF matchCMHK(isp) THEN CMHK
    ELSE IF matchCTM(isp) THEN CTM
    ELSE IF matchHiNet(isp) THEN HiNet
    ELSE IF matchAlibaba(isp) THEN Alibaba
    ELSE IF matchTencent(isp) THEN Tencent
    ELSE IF matchHuawei(isp) THEN Huawei
    ELSE IF matchGoogle(isp) THEN Google
    ELSE IF matchAWS(isp) THEN AWS
    ELSE IF matchAzure(isp) THEN Azure
    ELSE IF matchOracle(isp) THEN Oracle
    ELSE IF matchDigitalOcean(isp) THEN DigitalOcean
    ELSE IF matchVultr(isp) THEN Vultr
    ELSE IF matchLinode(isp) THEN Linode
    ELSE IF matchCloudflare(isp) THEN Cloudflare
    ELSE result

\* Mutant: a rule on the ASN (AS4134 is China Telecom) ahead of the text rules.
identifyISPByAsn(rawIsp_, asn_) ==
    IF asn_ = 4134 THEN ChinaTelecom
    ELSE MatchRules(toLowerCase(rawIsp_), DefaultResult(rawIsp_))

identifyISP(rawIsp_, asn_) ==
    LET isp == toLowerCase(rawIsp_)
        result == DefaultResult(rawIsp_)
    IN  MatchRules(isp, result)

----------------------------------------------------------------------------
(* translateColo, index.js:930-954.                                        *)

ColoEntry(name, iso) == [t |-> "object", name |-> Str(name), iso |-> Str(iso)]

\* index.js:932-952: the object literal, as its own properties in source order.
map ==
    << [code |-> S("HKG"), value |-> ColoEntry(<<"U+9999", "U+6E2F">>, S("hk"))],
       [code |-> S("TPE"), value |-> ColoEntry(<<"U+53F0", "U+5317">>, S("tw"))],
       [code |-> S("NRT"), value |-> ColoEntry(<<"U+4E1C", "U+4EAC">>, S("jp"))],
       [code |-> S("KIX"), value |-> ColoEntry(<<"U+5927", "U+962A">>, S("jp"))],
       [code |-> S("ICN"), value |-> ColoEntry(<<"U+9996", "U+5C14">>, S("kr"))],
       [code |-> S("SIN"), value |-> ColoEntry(<<"U+65B0", "U+52A0", "U+5761">>, S("sg"))],
       [code |-> S("KUL"), value |-> ColoEntry(<<"U+5409", "U+9686", "U+5761">>, S("my"))],
       [code |-> S("BKK"), value |-> ColoEntry(<<"U+66FC", "U+8C37">>, S("th"))],
       [code |-> S("SGN"), value |-> ColoEntry(<<"U+80E1", "U+5FD7", "U+660E", "U+5E02">>, S("vn"))],
       [code |-> S("MNL"), value |-> ColoEntry(<<"U+9A6C", "U+5C3C", "U+62C9">>, S("ph"))],
       [code |-> S("LAX"), value |-> ColoEntry(<<"U+6D1B", "U+6749", "U+77F6">>, S("us"))],
       [code |-> S("SJC"), value |-> ColoEntry(<<"U+5723", "U+4F55", "U+585E">>, S("us"))],
       [code |-> S("SFO"), value |-> ColoEntry(<<"U+65E7", "U+91D1", "U+5C71">>, S("us"))],
       [code |-> S("SEA"), value |-> ColoEntry(<<"U+897F", "U+96C5", "U+56FE">>, S("us"))],
       [code |-> S("JFK"), value |-> ColoEntry(<<"U+7EBD", "U+7EA6">>, S("us"))],
       [code |-> S("LHR"), value |-> ColoEntry(<<"U+4F26", "U+6566">>, S("gb"))],
       [code |-> S("FRA"), value |-> ColoEntry(<<"U+6CD5", "U+5170", "U+514B", "U+798F">>, S("de"))],
       [code |-> S("AMS"), value |-> ColoEntry(<<"U+963F", "U+59C6", "U+65AF", "U+7279", "U+4E39">>, S("nl"))],
       [code |-> S("SYD"), value |-> ColoEntry(<<"U+6089", "U+5C3C">>, S("au"))] >>

\* The property names an object literal inherits from Object.prototype.
ObjectPrototypeKeys ==
    { S("constructor"), S("hasOwnProperty"), S("isPrototypeOf"),
      S("propertyIsEnumerable"), S("toLocaleString"), S("toString"), S("valueOf"),
      S("__proto__"), S("__defineGetter__"), S("__defineSetter__"),
      S("__lookupGetter__"), S("__lookupSetter__") }

\* object[key]: an own property, else one inherited from Object.prototype
\* (a function, or the prototype itself for __proto__), else undefined.
Get(object, key) ==
    IF \E k \in 1..Len(object) : object[k].code = key
    THEN object[CHOOSE k \in 1..Len(object) : object[k].code = key].value
    ELSE IF key \in ObjectPrototypeKeys
    THEN [t |-> IF key = S("__proto__") THEN "object" ELSE "function", inherited |-> key]
    ELSE Undefined

\* Mutant: the lookup by the code as supplied, the upper-casing left out.
translateColoCaseSensitive(coloCode_) ==
    Or(Get(map, coloCode_), [t |-> "object", name |-> Str(coloCode_), iso |-> Null])

\* Mutant: on a miss, the name is the code as supplied.
translateColoRawName(coloCode_) ==
    LET code == toUpperCase(coloCode_)
    IN  Or(Get(map, code), [t |-> "object", name |-> Str(coloCode_), iso |-> Null])

\* Mutant: return map[code], without the fallback.
translateColoNoFallback(coloCode_) ==
    Get(map, toUpperCase(coloCode_))

\* Mutant: on a miss, iso: "" for iso: null.
translateColoEmptyIso(coloCode_) ==
    LET code == toUpperCase(coloCode_)
    IN  Or(Get(map, code), [t |-> "object", name |-> Str(code), iso |-> Str(<<>>)])

translateColo(coloCode_) ==
    LET code == toUpperCase(coloCode_)
    IN  Or(Get(map, code), [t |-> "object", name |-> Str(code), iso |-> Null])

----------------------------------------------------------------------------
(* The calls of identifyISP.  The organization string and the ASN come     *)
(* from the platform (request.cf): any string, any number.  The strings    *)
(* are drawn from: the empty string, one piece, and two pieces with a gap  *)
(* of at most MaxGap spaces between them, the pieces written in small      *)
(* letters, in capitals, capitalised or in alternating case; and the       *)
(* documented examples.                                                    *)

MaxGap == 1

\* The rules as spec.md section 4.2 lists them (token -> identity), in the
\* order the specification fixes: mainland carriers, Hong Kong / Macau /
\* Taiwan carriers, cloud providers.
RuleOrder ==
    << [tokens |-> {S("chinanet"), S("telecom")}, identity |-> ChinaTelecom],
       [tokens |-> {S("unicom")}, identity |-> ChinaUnicom],
       [tokens |-> {S("mobile"), S("cmcc"), S("tietong")}, identity |-> ChinaMobile],
       [tokens |-> {S("broadnet"), S("cable"), S("gehua")}, identity |-> ChinaBroadnet],
       [tokens |-> {S("cernet")}, identity |-> Cernet],
       [tokens |-> {S("dr.peng"), S("great wall")}, identity |-> DrPeng],
       [tokens |-> {S("hkt"), S("pccw")}, identity |-> HKT],
       [tokens |-> {S("hkbn")}, identity |-> HKBN],
       [tokens |-> {S("hgc")}, identity |-> HGC],
       [tokens |-> {S("cmhk")}, identity |-> CMHK],
       [tokens |-> {S("ctm")}, identity |-> CTM],
       [tokens |-> {S("chunghwa"), S("hinet")}, identity |-> HiNet],
       [tokens |-> {S("alibaba"), S("aliyun")}, identity |-> Alibaba],
       [tokens |-> {S("tencent")}, identity |-> Tencent],
       [tokens |-> {S("huawei")}, identity |-> Huawei],
       [tokens |-> {S("google")}, identity |-> Google],
       [tokens |-> {S("amazon"), S("aws")}, identity |-> AWS],
       [tokens |-> {S("microsoft"), S("azure")}, identity |-> Azure],
       [tokens |-> {S("oracle")}, identity |-> Oracle],
       [tokens |-> {S("digitalocean")}, identity |-> DigitalOcean],
       [tokens |-> {S("vultr")}, identity |-> Vultr],
       [tokens |-> {S("linode")}, identity |-> Linode],
       [tokens |-> {S("cloudflare")}, identity |-> Cloudflare] >>

RuleTokens == UNION {RuleOrder[k].tokens : k \in 1..Len(RuleOrder)}

\* Text that surrounds tokens, splits one ("hk" + "t", "chinane" + "t"), or
\* nearly is one: "h" + KELVIN SIGN, and "hinet" with U+0130 for its i.
OrgFillers ==
    { S(" "), S("hk"), S("t"), S("chinane"), S("Ltd"),
      <<"h", "U+212A">>, <<"h", "U+0130", "n", "e", "t">> }

\* Strings the documentation uses, and organization strings of AS3462 and
\* AS4134.
OrgExamples ==
    { S("Shiodome Sumitomo Blog 1-9-2 TOKYO"),
      S("google cloud telecom hybrid"),
      S("Chunghwa Telecom Co., Ltd."),
      S("AS4134 CHINANET-BACKBONE No.31,Jin-rong Street"),
      S("Amazon AWS behind Cloudflare, via China Mobile"),
      <<"U+4E2D", "U+56FD", "U+7535", "U+4FE1">> }

ASNs == {0, 4134, 45102}

Capital(c) ==
    IF \E i \in 1..26 : AsciiLower[i] = c THEN AsciiUpper[IndexIn(AsciiLower, c)] ELSE c

\* A piece as written in one of the four letter cases.
Written(mode, piece) ==
    CASE mode = "small" -> piece
      [] mode = "capitals" -> [i \in 1..Len(piece) |-> Capital(piece[i])]
      [] mode = "capitalised" ->
            [i \in 1..Len(piece) |-> IF i = 1 THEN Capital(piece[i]) ELSE piece[i]]
      [] mode = "alternating" ->
            [i \in 1..Len(piece) |-> IF i % 2 = 0 THEN Capital(piece[i]) ELSE piece[i]]

LetterCases == {"small", "capitals", "capitalised", "alternating"}

Spaces(n) == [i \in 1..n |-> " "]

OrgPieces == {<<>>} \cup RuleTokens \cup OrgFillers

InitISP ==
    /\ pc = "identifyISP"
    /\ \/ rawIsp \in OrgExamples
       \/ \E m \in LetterCases, first \in OrgPieces, second \in OrgPieces, gap \in 0..MaxGap :
            rawIsp = Written(m, first) \o Spaces(gap) \o Written(m, second)
    /\ asn \in ASNs
    /\ ispInfo = Undefined
    /\ coloCode = <<>>
    /\ nodeInfo = Undefined
    /\ WorkerIdle
    /\ HeapIdle
    /\ LaterIdle

\* const ispInfo = identifyISP(rawIsp, asn);
CallIdentifyISP ==
    /\ pc = "identifyISP"
    /\ ispInfo' = identifyISP(rawIsp, asn)
    /\ pc' = "identifyISP returned"
    /\ UNCHANGED <<rawIsp, asn, coloCode, nodeInfo>>
    /\ UNCHANGED <<workerVars, heapVars, laterVars>>

NextISP == CallIdentifyISP

SpecISP == InitISP /\ [][NextISP]_vars

----------------------------------------------------------------------------
(* Claims about identifyISP.                                               *)

\* t occurs in s as a plain substring.
Occurs(t, s) == \E i \in 1..(Len(s) - Len(t) + 1) : SubSeq(s, i, i + Len(t) - 1) = t

\* The rules of RuleOrder that have a token occurring in s.
Matching(s) ==
    {k \in 1..Len(RuleOrder) : \E tok \in RuleOrder[k].tokens : Occurs(tok, s)}

Earliest(ks) == CHOOSE k \in ks : \A other \in ks : k <= other

\* C1: identifyISP is first-match-wins over the fixed order of RuleOrder: when
\* some rule has a token occurring in the lower-cased organization string, the
\* result is the identity of the earliest such rule; "google cloud telecom
\* hybrid" is China Telecom.
FirstMatchWins ==
    pc = "identifyISP returned" =>
        LET hits == Matching(toLowerCase(rawIsp))
        IN  /\ hits # {} => ispInfo = RuleOrder[Earliest(hits)].identity
            /\ rawIsp = S("google cloud telecom hybrid") => ispInfo = ChinaTelecom

\* A string with tokens of two rules, the later rule's token written first,
\* has been classified as the earlier rule.
FirstMatchWinsWitness ==
    /\ pc = "identifyISP returned"
    /\ rawIsp = S("google") \o S("telecom")
    /\ Cardinality(Matching(toLowerCase(rawIsp))) = 2
    /\ ispInfo = ChinaTelecom

\* t occurs in s with each of its letters in either case.
OccursAnyCase(t, s) ==
    \E i \in 1..(Len(s) - Len(t) + 1) :
        \A j \in 1..Len(t) : s[i + j - 1] \in {t[j], Capital(t[j])}

\* C2: every organization string that contains "chinanet", in any letter case
\* and with any text around it, is named U+4E2D U+56FD U+7535 U+4FE1 (China
\* Telecom), whatever the ASN.
ChinanetIsChinaTelecom ==
    (pc = "identifyISP returned" /\ OccursAnyCase(S("chinanet"), rawIsp)) =>
        ispInfo.name = Str(<<"U+4E2D", "U+56FD", "U+7535", "U+4FE1">>)

\* "chinanet" in capitals, after another rule's token and under a non-zero
\* ASN, has been named China Telecom.
ChinanetIsChinaTelecomWitness ==
    /\ pc = "identifyISP returned"
    /\ rawIsp = S("GOOGLE CHINANET")
    /\ asn = 45102
    /\ ispInfo.name = Str(<<"U+4E2D", "U+56FD", "U+7535", "U+4FE1">>)

HiNetName == <<"U+4E2D", "U+534E", "U+7535", "U+4FE1">> \o S(" (HiNet)")

MentionsHiNet(s) == OccursAnyCase(S("chunghwa"), s) \/ OccursAnyCase(S("hinet"), s)

\* C3 as stated: every organization string that contains "chunghwa" or
\* "hinet", in any letter case, is named U+4E2D U+534E U+7535 U+4FE1 (HiNet).
ChunghwaIsAlwaysHiNet ==
    (pc = "identifyISP returned" /\ MentionsHiNet(rawIsp)) =>
        ispInfo.name = Str(HiNetName)

\* The rules that precede Chunghwa Telecom (HiNet) in RuleOrder.
BeforeHiNet == {k \in 1..Len(RuleOrder) : k < 12}

\* C3, amended: an organization string that contains "chunghwa" or "hinet",
\* in any letter case, and whose lower-cased form contains no token of the
\* eleven rules before Chunghwa Telecom, is named Chunghwa Telecom (HiNet).
ChunghwaIsHiNetUnlessEarlierRule ==
    ( /\ pc = "identifyISP returned"
      /\ MentionsHiNet(rawIsp)
      /\ Matching(toLowerCase(rawIsp)) \cap BeforeHiNet = {} ) =>
        ispInfo.name = Str(HiNetName)

\* "HiNet" followed by a later rule's token has been named Chunghwa Telecom.
ChunghwaIsHiNetWitness ==
    /\ pc = "identifyISP returned"
    /\ rawIsp = S("Hinet Google")
    /\ ispInfo.name = Str(HiNetName)

\* C4: a non-empty organization string whose lower-cased form contains none of
\* the rule tokens gets the fallback identity: the name is the string as it
\* was supplied, the colour #555555, the background rgba(85, 85, 85, 0.1).
FallbackKeepsRawName ==
    ( /\ pc = "identifyISP returned"
      /\ toLowerCase(rawIsp) # <<>>
      /\ Matching(toLowerCase(rawIsp)) = {} ) =>
        ispInfo = [t |-> "object", name |-> Str(rawIsp),
                   color |-> Str(S("#555555")), bg |-> Str(S("rgba(85, 85, 85, 0.1)"))]

\* The documented example, with its capitals, has come back as its own name.
FallbackKeepsRawNameWitness ==
    /\ pc = "identifyISP returned"
    /\ rawIsp = S("Shiodome Sumitomo Blog 1-9-2 TOKYO")
    /\ asn = 45102
    /\ Matching(toLowerCase(rawIsp)) = {}
    /\ ispInfo.name = Str(rawIsp)
    /\ ispInfo.color = Str(S("#555555"))

\* C5: the name of a result is never the empty string: the empty organization
\* string gets the fallback identity named U+672A U+77E5 U+7F51 U+7EDC
\* (unknown network), every other string a rule's identity or the fallback
\* identity named by the string itself.
NameNeverEmpty ==
    pc = "identifyISP returned" =>
        /\ ispInfo.name # Str(<<>>)
        /\ rawIsp = <<>> =>
             ispInfo = [t |-> "object", name |-> Str(<<"U+672A", "U+77E5", "U+7F51", "U+7EDC">>),
                        color |-> Str(S("#555555")), bg |-> Str(S("rgba(85, 85, 85, 0.1)"))]
        /\ rawIsp # <<>> =>
             \/ \E k \in 1..Len(RuleOrder) : ispInfo = RuleOrder[k].identity
             \/ ispInfo.name = Str(rawIsp)

\* identifyISP("", 0) has returned the unknown-network label.
NameNeverEmptyWitness ==
    /\ pc = "identifyISP returned"
    /\ rawIsp = <<>>
    /\ asn = 0
    /\ ispInfo.name = Str(<<"U+672A", "U+77E5", "U+7F51", "U+7EDC">>)

\* C6: the ASN never influences the classification: what identifyISP returned
\* for the ASN it was given is what it returns, in name, colour and
\* background, for every other ASN.
AsnIsIgnored ==
    pc = "identifyISP returned" =>
        \A other \in ASNs : identifyISP(rawIsp, other) = ispInfo

\* A fallback result and a rule's result, each under a non-zero ASN.
AsnIsIgnoredWitness ==
    /\ pc = "identifyISP returned"
    /\ asn = 4134
    /\ rawIsp = S("google")
    /\ ispInfo = Google
    /\ identifyISP(rawIsp, 0) = ispInfo

----------------------------------------------------------------------------
(* The calls of translateColo.  The colo code comes from the platform      *)
(* (request.cf.colo), with "UNK" in its place when it is missing.  The     *)
(* codes are drawn as the organization strings are, from the table's keys  *)
(* and from text that is no key.                                           *)

ColoKeys == {map[k].code : k \in 1..Len(map)}

\* The sentinel, parts of keys ("nr" + "t", "hk" + "g"), a key with U+0131
\* (dotless i) for its I, a key with KELVIN SIGN for its K, U+00DF (sharp s),
\* and inherited property names.
ColoFillers ==
    { S("UNK"), S("xxx"), S("nr"), S("t"), S("hk"), S("g"), S("1"),
      <<"U+0131", "c", "n">>, <<"U+212A", "i", "x">>, <<"U+00DF">>,
      S("constructor"), S("toString"), S("__proto__") }

ColoPieces == {<<>>} \cup ColoKeys \cup {toLowerCase(key) : key \in ColoKeys} \cup ColoFillers

InitColo ==
    /\ pc = "translateColo"
    /\ \E m \in LetterCases, first \in ColoPieces, second \in ColoPieces, gap \in 0..MaxGap :
            coloCode = Written(m, first) \o Spaces(gap) \o Written(m, second)
    /\ nodeInfo = Undefined
    /\ rawIsp = <<>>
    /\ asn = 0
    /\ ispInfo = Undefined
    /\ WorkerIdle
    /\ HeapIdle
    /\ LaterIdle

\* const nodeInfo = translateColo(colo);
CallTranslateColo ==
    /\ pc = "translateColo"
    /\ nodeInfo' = translateColo(coloCode)
    /\ pc' = "translateColo returned"
    /\ UNCHANGED <<coloCode, rawIsp, asn, ispInfo>>
    /\ UNCHANGED <<workerVars, heapVars, laterVars>>

NextColo == CallTranslateColo

SpecColo == InitColo /\ [][NextColo]_vars

\* Either function, called once.
Init == InitISP \/ InitColo

Next == CallIdentifyISP \/ CallTranslateColo

Spec == Init /\ [][Next]_vars

----------------------------------------------------------------------------
(* Claims about translateColo.                                             *)

\* The nineteen codes with the city name and ISO code documented for each.
Documented ==
    { [code |-> S("HKG"), name |-> <<"U+9999", "U+6E2F">>, iso |-> S("hk")],
      [code |-> S("TPE"), name |-> <<"U+53F0", "U+5317">>, iso |-> S("tw")],
      [code |-> S("NRT"), name |-> <<"U+4E1C", "U+4EAC">>, iso |-> S("jp")],
      [code |-> S("KIX"), name |-> <<"U+5927", "U+962A">>, iso |-> S("jp")],
      [code |-> S("ICN"), name |-> <<"U+9996", "U+5C14">>, iso |-> S("kr")],
      [code |-> S("SIN"), name |-> <<"U+65B0", "U+52A0", "U+5761">>, iso |-> S("sg")],
      [code |-> S("KUL"), name |-> <<"U+5409", "U+9686", "U+5761">>, iso |-> S("my")],
      [code |-> S("BKK"), name |-> <<"U+66FC", "U+8C37">>, iso |-> S("th")],
      [code |-> S("SGN"), name |-> <<"U+80E1", "U+5FD7", "U+660E", "U+5E02">>, iso |-> S("vn")],
      [code |-> S("MNL"), name |-> <<"U+9A6C", "U+5C3C", "U+62C9">>, iso |-> S("ph")],
      [code |-> S("LAX"), name |-> <<"U+6D1B", "U+6749", "U+77F6">>, iso |-> S("us")],
      [code |-> S("SJC"), name |-> <<"U+5723", "U+4F55", "U+585E">>, iso |-> S("us")],
      [code |-> S("SFO"), name |-> <<"U+65E7", "U+91D1", "U+5C71">>, iso |-> S("us")],
      [code |-> S("SEA"), name |-> <<"U+897F", "U+96C5", "U+56FE">>, iso |-> S("us")],
      [code |-> S("JFK"), name |-> <<"U+7EBD", "U+7EA6">>, iso |-> S("us")],
      [code |-> S("LHR"), name |-> <<"U+4F26", "U+6566">>, iso |-> S("gb")],
      [code |-> S("FRA"), name |-> <<"U+6CD5", "U+5170", "U+514B", "U+798F">>, iso |-> S("de")],
      [code |-> S("AMS"), name |-> <<"U+963F", "U+59C6", "U+65AF", "U+7279", "U+4E39">>, iso |-> S("nl")],
      [code |-> S("SYD"), name |-> <<"U+6089", "U+5C3C">>, iso |-> S("au")] }

AllCapitals(s) == Written("capitals", s)

\* C7: translateColo is case-insensitive: what it returned for a code is
\* what it returns, in name and iso, for the upper-cased code.
TranslateIgnoresCase ==
    pc = "translateColo returned" => nodeInfo = translateColo(toUpperCase(coloCode))

\* A key in small letters has been translated to the key's entry.
TranslateIgnoresCaseWitness ==
    /\ pc = "translateColo returned"
    /\ coloCode = S("lax")
    /\ toUpperCase(coloCode) # coloCode
    /\ nodeInfo.iso = Str(S("us"))

\* C8: a code whose upper-cased form is not one of the nineteen keys (the
\* sentinel UNK, a code of any length, the empty string) is translated to the
\* upper-cased code as the name, and null as the iso.
MissGivesUpperCasedCode ==
    ( /\ pc = "translateColo returned"
      /\ \A d \in Documented : toUpperCase(coloCode) # d.code ) =>
        nodeInfo = [t |-> "object", name |-> Str(toUpperCase(coloCode)), iso |-> Null]

\* An unknown code in small letters has come back in capitals, with no iso.
MissGivesUpperCasedCodeWitness ==
    /\ pc = "translateColo returned"
    /\ coloCode = S("xxx")
    /\ nodeInfo = [t |-> "object", name |-> Str(S("XXX")), iso |-> Null]

\* C9: each of the nineteen codes, in any letter case, is translated to its
\* documented city name and ISO code; NRT is U+4E1C U+4EAC (Tokyo), jp, and
\* lax is U+6D1B U+6749 U+77F6 (Los Angeles), us.
KeysGiveDocumentedEntry ==
    pc = "translateColo returned" =>
        /\ \A d \in Documented :
              AllCapitals(coloCode) = d.code =>
                  nodeInfo = [t |-> "object", name |-> Str(d.name), iso |-> Str(d.iso)]
        /\ coloCode = S("NRT") =>
              nodeInfo = [t |-> "object", name |-> Str(<<"U+4E1C", "U+4EAC">>), iso |-> Str(S("jp"))]
        /\ coloCode = S("lax") =>
              nodeInfo = [t |-> "object", name |-> Str(<<"U+6D1B", "U+6749", "U+77F6">>),
                          iso |-> Str(S("us"))]

\* A key written with a capital first letter only has been translated.
KeysGiveDocumentedEntryWitness ==
    /\ pc = "translateColo returned"
    /\ coloCode = S("Syd")
    /\ nodeInfo = [t |-> "object", name |-> Str(<<"U+6089", "U+5C3C">>), iso |-> Str(S("au"))]

\* C10: both functions are total: for every string and every ASN the result
\* is an object with all its fields defined: name, color and bg strings for
\* identifyISP; name a string and iso a string or null for translateColo.
BothTotal ==
    /\ pc = "identifyISP returned" =>
          /\ ispInfo.t = "object"
          /\ DOMAIN ispInfo = {"t", "name", "color", "bg"}
          /\ ispInfo.name.t = "string"
          /\ ispInfo.color.t = "string"
          /\ ispInfo.bg.t = "string"
    /\ pc = "translateColo returned" =>
          /\ nodeInfo.t = "object"
          /\ DOMAIN nodeInfo = {"t", "name", "iso"}
          /\ nodeInfo.name.t = "string"
          /\ nodeInfo.iso.t \in {"string", "null"}

\* An inherited property name and the empty string have both been answered.
BothTotalWitnessColo ==
    /\ pc = "translateColo returned"
    /\ coloCode = S("constructor")
    /\ nodeInfo = [t |-> "object", name |-> Str(S("CONSTRUCTOR")), iso |-> Null]

\* C12: every iso translateColo returns is null or a string of exactly two
\* small ASCII letters, and it is null exactly when the upper-cased code is
\* not a key of the table.
IsoIsNullOrTwoSmallLetters ==
    pc = "translateColo returned" =>
        /\ nodeInfo.iso = Null <=> (\A d \in Documented : toUpperCase(coloCode) # d.code)
        /\ nodeInfo.iso # Null =>
              /\ nodeInfo.iso.t = "string"
              /\ Len(nodeInfo.iso.v) = 2
              /\ \A i \in 1..2 : \E j \in 1..26 : nodeInfo.iso.v[i] = AsciiLower[j]

\* A key in small letters has been given its two-letter iso.
IsoIsNullOrTwoSmallLettersWitness ==
    /\ pc = "translateColo returned"
    /\ coloCode = S("fra")
    /\ nodeInfo.iso = Str(S("de"))

----------------------------------------------------------------------------
(* Further claims about identifyISP.                                       *)

Digits == S("0123456789")

HexDigits == S("0123456789ABCDEF")

IsHexDigit(c) == \E i \in 1..16 : c \in {HexDigits[i], toLowerCaseChar(HexDigits[i])[1]}

HexValue(c) ==
    (CHOOSE i \in 1..16 : c \in {HexDigits[i], toLowerCaseChar(HexDigits[i])[1]}) - 1

\* The byte written by two hexadecimal digits.
Byte(hi, lo) == 16 * HexValue(hi) + HexValue(lo)

\* A number below 1000 in decimal, without leading zeros.
Decimal(n) ==
    IF n < 10 THEN <<Digits[n + 1]>>
    ELSE IF n < 100 THEN <<Digits[(n \div 10) + 1], Digits[(n % 10) + 1]>>
    ELSE <<Digits[(n \div 100) + 1], Digits[((n \div 10) % 10) + 1], Digits[(n % 10) + 1]>>

IsDigit(c) == \E i \in 1..10 : c = Digits[i]

\* A decimal fraction strictly between 0 and 1: "0." and digits, not all 0.
IsAlpha(a) ==
    /\ Len(a) >= 3
    /\ a[1] = "0"
    /\ a[2] = "."
    /\ \A i \in 3..Len(a) : IsDigit(a[i])
    /\ \E i \in 3..Len(a) : a[i] # "0"

IsHexColour(c) ==
    /\ Len(c) = 7
    /\ c[1] = "#"
    /\ \A i \in 2..7 : IsHexDigit(c[i])

\* bg is rgba(r, g, b, a), with r, g, b the bytes of the colour c.
IsTintOf(bg, c) ==
    LET pre == S("rgba(") \o Decimal(Byte(c[2], c[3])) \o S(", ")
                          \o Decimal(Byte(c[4], c[5])) \o S(", ")
                          \o Decimal(Byte(c[6], c[7])) \o S(", ")
    IN  /\ Len(bg) > Len(pre) + 1
        /\ SubSeq(bg, 1, Len(pre)) = pre
        /\ bg[Len(bg)] = ")"
        /\ IsAlpha(SubSeq(bg, Len(pre) + 1, Len(bg) - 1))

\* C13: for every identity identifyISP returns, a rule's or the fallback,
\* color is # and six hexadecimal digits, and bg is rgba(r, g, b, a) with r,
\* g, b the decimal values of the three byte pairs of that colour and a
\* strictly between 0 and 1.
ColourAndTintAgree ==
    pc = "identifyISP returned" =>
        /\ IsHexColour(ispInfo.color.v)
        /\ IsTintOf(ispInfo.bg.v, ispInfo.color.v)

\* The rule whose alpha is not 0.1, and whose bytes have letters, has matched.
ColourAndTintAgreeWitness ==
    /\ pc = "identifyISP returned"
    /\ rawIsp = S("gehua")
    /\ ispInfo.color = Str(S("#7CB342"))
    /\ ispInfo.bg = Str(S("rgba(124, 179, 66, 0.15)"))

\* What identifyISP returns for each token alone and for each example.
Classified ==
    { [org |-> s, result |-> identifyISP(s, a)] :
        s \in RuleTokens \cup OrgExamples, a \in ASNs }

IsFallback(org) == Matching(toLowerCase(org)) = {}

\* C18 as stated: any two results with the same name have the same color and
\* the same bg.
ColoursStablePerName ==
    pc = "identifyISP returned" =>
        \A e \in Classified :
            e.result.name = ispInfo.name =>
                e.result.color = ispInfo.color /\ e.result.bg = ispInfo.bg

\* C18, amended: any two results with the same name, both of them a rule's
\* identity or both of them the fallback, have the same color and the same bg.
ColoursStablePerNameOfRule ==
    pc = "identifyISP returned" =>
        \A e \in Classified :
            (e.result.name = ispInfo.name /\ (IsFallback(e.org) <=> IsFallback(rawIsp))) =>
                e.result.color = ispInfo.color /\ e.result.bg = ispInfo.bg

\* Two different strings have been given the same name and the same colours.
ColoursStablePerNameWitness ==
    /\ pc = "identifyISP returned"
    /\ rawIsp = S("Telecom")
    /\ \E e \in Classified :
          /\ e.org = S("chinanet")
          /\ e.result.name = ispInfo.name
          /\ e.result.color = ispInfo.color
          /\ e.result.bg = ispInfo.bg

\* s is t with each letter in either case.
SameLetters(s, t) ==
    /\ Len(s) = Len(t)
    /\ \A j \in 1..Len(t) : s[j] \in {t[j], Capital(t[j])}

\* C20: no rule is shadowed by an earlier one: the organization string that
\* is exactly one of the 34 tokens, in any letter case, is classified as the
\* identity of the token's own rule.
NoRuleShadowed ==
    /\ Cardinality(RuleTokens) = 34
    /\ pc = "identifyISP returned" =>
          \A k \in 1..Len(RuleOrder) : \A tok \in RuleOrder[k].tokens :
              SameLetters(rawIsp, tok) => ispInfo = RuleOrder[k].identity

\* The token of the rule after "hkt", in capitals, has been given its own rule.
NoRuleShadowedWitness ==
    /\ pc = "identifyISP returned"
    /\ rawIsp = S("HKBN")
    /\ ispInfo = HKBN

----------------------------------------------------------------------------
(* The worker: fetch, which routes a request, and its four handlers,       *)
(* index.js:6-222.  A query string is the sequence of its parameters, each *)
(* a name and a value; a Response is its status, its content type and its  *)
(* body, the body of a JSON response being the document it encodes and the *)
(* body of the page the values its template is filled with.                *)

\* url.searchParams.get(name): the value of the first parameter of that
\* name, or null.
SearchParamsGet(query, name) ==
    IF \E i \in 1..Len(query) : query[i].name = name
    THEN Str(query[CHOOSE i \in 1..Len(query) :
                      /\ query[i].name = name
                      /\ \A j \in 1..(i - 1) : query[j].name # name].value)
    ELSE Null

\* Mutant: the action compared without regard to letter case.
DispatchIgnoringCase(action) ==
    LET act == IF action.t = "string" THEN Str(toLowerCase(action.v)) ELSE action
    IN  IF act = Str(S("analyze")) THEN <<"handleAIAnalyze">>
        ELSE IF act = Str(S("ping")) THEN <<"handlePing">>
        ELSE IF act = Str(S("get_ip_info")) THEN <<"handleGetIPInfo">>
        ELSE <<"renderHTML">>

\* index.js:13-30: the handlers fetch calls for an action, in order: each
\* branch returns what its handler returns.
Dispatch(action) ==
    IF action = Str(S("analyze")) THEN <<"handleAIAnalyze">>
    ELSE IF action = Str(S("ping")) THEN <<"handlePing">>
    ELSE IF action = Str(S("get_ip_info")) THEN <<"handleGetIPInfo">>
    ELSE <<"renderHTML">>

\* {}: reading any property gives undefined.
EmptyCf ==
    [t |-> "object", asOrganization |-> Undefined, asn |-> Undefined, colo |-> Undefined,
     country |-> Undefined, city |-> Undefined, region |-> Undefined,
     clientTcpRtt |-> Undefined]

\* Number(string), for strings without spaces, sign, point or exponent: the
\* empty string is 0, decimal digits are their number, anything else is NaN.
RECURSIVE DigitsValue(_)
DigitsValue(chars) ==
    IF chars = <<>> THEN 0
    ELSE 10 * DigitsValue(SubSeq(chars, 1, Len(chars) - 1))
             + IndexIn(S("0123456789"), chars[Len(chars)]) - 1

StringToNumber(chars) ==
    IF \A i \in 1..Len(chars) : \E k \in 1..10 : S("0123456789")[k] = chars[i]
    THEN Num(DigitsValue(chars))
    ELSE NaN

\* Number(value)
ToNumber(val) ==
    CASE val.t = "number" -> val
      [] val.t = "null" -> Num(0)
      [] val.t = "string" -> StringToNumber(val.v)
      [] OTHER -> NaN

\* request.headers.get("CF-Connecting-IP"): the header's value, or null.
HeadersGetConnectingIp(req) == req.connectingIp

\* Mutant: isp.raw filled with the classified name.
handleGetIPInfoRawFromName(req) ==
    LET cf == Or(req.cf, EmptyCf)
        rawIsp_ == Or(cf.asOrganization, Str(<<>>))
        asn_ == Or(cf.asn, Num(0))
        ip == Or(HeadersGetConnectingIp(req), Str(S("0.0.0.0")))
        colo == Or(cf.colo, Str(S("UNK")))
        country == Or(cf.country, Str(<<>>))
        city == Or(cf.city, Str(<<>>))
        region == Or(cf.region, Str(<<>>))
        nodeInfo_ == translateColo(colo.v)
        ispInfo_ == identifyISP(rawIsp_.v, asn_.v)
    IN  [status |-> 200,
         contentType |-> "application/json;charset=UTF-8",
         body |-> [ip |-> ip,
                   location |-> [country |-> country, region |-> region, city |-> city],
                   node |-> [code |-> colo, name |-> nodeInfo_.name, iso |-> nodeInfo_.iso],
                   asn |-> asn_,
                   isp |-> [name |-> ispInfo_.name, raw |-> ispInfo_.name],
                   rtt |-> Or(ToNumber(cf.clientTcpRtt), Num(0))]]

\* index.js:40-78
handleGetIPInfo(req) ==
    LET cf == Or(req.cf, EmptyCf)
        rawIsp_ == Or(cf.asOrganization, Str(<<>>))
        asn_ == Or(cf.asn, Num(0))
        ip == Or(HeadersGetConnectingIp(req), Str(S("0.0.0.0")))
        colo == Or(cf.colo, Str(S("UNK")))
        country == Or(cf.country, Str(<<>>))
        city == Or(cf.city, Str(<<>>))
        region == Or(cf.region, Str(<<>>))
        nodeInfo_ == translateColo(colo.v)
        ispInfo_ == identifyISP(rawIsp_.v, asn_.v)
    IN  [status |-> 200,
         contentType |-> "application/json;charset=UTF-8",
         body |-> [ip |-> ip,
                   location |-> [country |-> country, region |-> region, city |-> city],
                   node |-> [code |-> colo, name |-> nodeInfo_.name, iso |-> nodeInfo_.iso],
                   asn |-> asn_,
                   isp |-> [name |-> ispInfo_.name, raw |-> rawIsp_],
                   rtt |-> Or(ToNumber(cf.clientTcpRtt), Num(0))]]

\* index.js:175-183
handlePing ==
    [status |-> 200, contentType |-> "text/plain", body |-> Str(S("pong"))]

\* index.js:196: "地球某处"
SomewhereOnEarth == <<"U+5730", "U+7403", "U+67D0", "U+5904">>

\* index.js:217: <span class="blink">测速中...</span>
Measuring ==
    S("<span class=\"blink\">") \o <<"U+6D4B", "U+901F", "U+4E2D">> \o S("...</span>")

\* ${value}: a value as a template literal writes it.
TemplateString(val) ==
    CASE val.t = "string" -> val.v
      [] val.t = "undefined" -> S("undefined")
      [] val.t = "null" -> S("null")

\* Mutant: the image written whether or not the entry has an iso.
coloHtmlAlwaysFlag(nodeInfo_, colo) ==
    S("<img src=\"https://flagcdn.com/w40/") \o TemplateString(nodeInfo_.iso)
        \o S(".png\" class=\"flag-img\" alt=\"") \o TemplateString(nodeInfo_.iso) \o S("\"> ")
        \o nodeInfo_.name.v \o S(" <span style=\"opacity:0.6\">(") \o colo.v
        \o S(")</span>")

\* index.js:202-207
coloHtml(nodeInfo_, colo) ==
    IF Truthy(nodeInfo_.iso)
    THEN S("<img src=\"https://flagcdn.com/w40/") \o TemplateString(nodeInfo_.iso)
             \o S(".png\" class=\"flag-img\" alt=\"") \o TemplateString(nodeInfo_.iso)
             \o S("\"> ") \o nodeInfo_.name.v \o S(" <span style=\"opacity:0.6\">(")
             \o colo.v \o S(")</span>")
    ELSE nodeInfo_.name.v \o S(" <span style=\"opacity:0.6\">(") \o colo.v
             \o S(")</span>")

\* Mutant: the thresholds taken as >=.
rttColorInclusive(rtt) ==
    IF rtt = Num(0) THEN S("#10b981")
    ELSE IF rtt.v >= 350 THEN S("#ef4444")
    ELSE IF rtt.v >= 150 THEN S("#f59e0b")
    ELSE S("#10b981")

\* index.js:212, 215-221
rttColor(rtt) ==
    IF rtt = Num(0) THEN S("#10b981")
    ELSE IF rtt.v > 350 THEN S("#ef4444")
    ELSE IF rtt.v > 150 THEN S("#f59e0b")
    ELSE S("#10b981")

\* index.js:192-863: the values renderHTML computes (index.js:193-224) and
\* fills its template with.
renderHTML(req) ==
    LET cf == Or(req.cf, EmptyCf)
        rawIsp_ == Or(cf.asOrganization, Str(<<>>))
        asn_ == Or(cf.asn, Num(0))
        city == Or(cf.city, Str(SomewhereOnEarth))
        region == Or(cf.region, Str(<<>>))
        ip == Or(HeadersGetConnectingIp(req), Str(S("0.0.0.0")))
        colo == Or(cf.colo, Str(S("UNK")))
        nodeInfo_ == translateColo(colo.v)
        rtt == Or(ToNumber(cf.clientTcpRtt), Num(0))
        isHttp3 == rtt = Num(0)
        rttDisplay == IF isHttp3 THEN Measuring ELSE Decimal(rtt.v) \o S(" ms")
        ispInfo_ == identifyISP(rawIsp_.v, asn_.v)
        locationStr == IF Truthy(city) /\ Truthy(region) THEN city.v \o S(", ") \o region.v
                       ELSE IF Truthy(city) THEN city.v
                       ELSE region.v
    IN  [status |-> 200,
         contentType |-> "text/html;charset=UTF-8",
         body |-> [ip |-> ip, ispInfo |-> ispInfo_, locationStr |-> Str(locationStr),
                   rttColor |-> Str(rttColor(rtt)), rttDisplay |-> Str(rttDisplay),
                   coloHtml |-> Str(coloHtml(nodeInfo_, colo)), asn |-> asn_, rawIsp |-> rawIsp_,
                   isHttp3 |-> isHttp3, nodeInfo |-> nodeInfo_, colo |-> colo]]

\* index.js:89: the answer when the secret is missing.
KeyNotConfigured ==
    <<"U+670D", "U+52A1", "U+5668", "U+672A", "U+914D", "U+7F6E">> \o S(" ZHIPU_API_KEY")
        \o <<"U+FF0C", "U+65E0", "U+6CD5", "U+8FDB", "U+884C">> \o S("AI")
        \o <<"U+5206", "U+6790", "U+3002">>

\* index.js:117: the start of the error for an upstream answer that is not OK.
UpstreamFailed ==
    <<"U+667A", "U+8C31">> \o S("AI API ") \o <<"U+8BF7", "U+6C42", "U+5931", "U+8D25">>
        \o S(": ")

\* Mutant: if (apiKey === null), which a missing secret (undefined) passes.
KeyMissingIfNull(apiKey) == apiKey = Null

\* index.js:88: if (!apiKey)
KeyMissing(apiKey) == ~Truthy(apiKey)

\* index.js:168: new Response(error.message, { status: 500 })
ErrorResponse(message) ==
    [status |-> 500, contentType |-> "text/plain;charset=UTF-8", body |-> Str(message)]

\* Mutant: no try around the body of handleAIAnalyze: an error thrown in it
\* rejects the promise the handler returned.
ThrownUncaught(message) == [pc |-> "rejected", response |-> Undefined]

\* index.js:84, 167-169: an error thrown inside the try is caught, and the
\* handler returns a response made of its message.
Thrown(message) == [pc |-> "responded", response |-> ErrorResponse(message)]

\* index.js:106-113: the request handleAIAnalyze sends upstream.
ZhipuRequest(apiKey, userInfo) ==
    [url |-> "https://open.bigmodel.cn/api/paas/v4/chat/completions",
     method |-> "POST",
     authorization |-> S("Bearer ") \o TemplateString(apiKey),
     userInfo |-> userInfo,
     answer |-> Undefined]

----------------------------------------------------------------------------
(* Requests.  The platform supplies request.cf (absent outside the         *)
(* platform), the CF-Connecting-IP header and the secrets of env.          *)

MaxParams == 2

QueryNames == {S("act"), S("Act"), S("t")}

QueryValues ==
    {S("analyze"), S("ping"), S("get_ip_info"), S("Ping"), S("analyze "), <<>>}

QueryParams == [name : QueryNames, value : QueryValues]

Queries == UNION {[1..n -> QueryParams] : n \in 0..MaxParams}

Methods == {"GET", "POST"}

Paths == {"/", "/api/v1/info"}

CfExample ==
    [t |-> "object", asOrganization |-> Str(S("Shiodome Sumitomo Blog 1-9-2 TOKYO")),
     asn |-> Num(45102), colo |-> Str(S("NRT")), country |-> Str(S("JP")),
     city |-> Str(S("Tokyo")), region |-> Str(S("Tokyo")), clientTcpRtt |-> Num(42)]

Cfs ==
    [t : {"object"},
     asOrganization : {Undefined, Str(<<>>), Str(S("Shiodome Sumitomo Blog 1-9-2 TOKYO")),
                       Str(S("AS4134 CHINANET-BACKBONE No.31,Jin-rong Street"))},
     asn : {Undefined, Num(0), Num(45102)},
     colo : {Undefined, Str(S("NRT")), Str(S("lax")), Str(S("XXX")), Str(S("zzz"))},
     country : {Undefined, Str(S("JP"))},
     city : {Undefined, Str(S("Tokyo"))},
     region : {Undefined, Str(S("Kanto"))},
     clientTcpRtt : {Undefined, Num(0), Num(42), Num(150), Num(151), Num(350), Num(351),
                     Str(S("200")), Str(S("fast"))}]

ConnectingIps == {Null, Str(S("203.0.113.7"))}

Secrets == {Undefined, Str(<<>>), Str(S("k3y.s3cret"))}

\* A request body: whether it is JSON, as request.json() finds.
Bodies == {[json |-> TRUE], [json |-> FALSE]}

\* The upstream service's answers that are not OK: the status, the text of
\* the body, and whether the handler has read that text.
UpstreamErrors ==
    { [ok |-> FALSE, status |-> 401, text |-> S("{\"error\":\"unauthorized\"}"),
       read |-> FALSE],
      [ok |-> FALSE, status |-> 429, text |-> <<>>, read |-> FALSE] }

UpstreamAnswers ==
    {[ok |-> TRUE, status |-> 200, text |-> <<>>, read |-> FALSE]} \cup UpstreamErrors

\* The message of the error of a connection lost while fetching or reading.
ConnectionLost == S("Network connection lost.")

CallsIdle ==
    /\ rawIsp = <<>>
    /\ asn = 0
    /\ ispInfo = Undefined
    /\ coloCode = <<>>
    /\ nodeInfo = Undefined

InitWorker ==
    /\ pc = "fetch"
    /\ \/ \E method \in Methods, path \in Paths, query \in Queries :
            /\ request = [method |-> method, path |-> path, query |-> query,
                          connectingIp |-> Str(S("203.0.113.7")), cf |-> CfExample,
                          body |-> [json |-> TRUE]]
            /\ env = [ZHIPU_API_KEY |-> Str(S("k3y.s3cret"))]
       \/ \E query \in {<<>>, <<[name |-> S("act"), value |-> S("get_ip_info")]>>},
             cf \in Cfs \cup {Undefined}, ip \in ConnectingIps :
            /\ request = [method |-> "GET", path |-> "/", query |-> query,
                          connectingIp |-> ip, cf |-> cf, body |-> [json |-> FALSE]]
            /\ env = [ZHIPU_API_KEY |-> Str(S("k3y.s3cret"))]
       \/ \E body \in Bodies, secret \in Secrets :
            /\ request = [method |-> "POST", path |-> "/",
                          query |-> <<[name |-> S("act"), value |-> S("analyze")]>>,
                          connectingIp |-> Str(S("203.0.113.7")), cf |-> CfExample,
                          body |-> body]
            /\ env = [ZHIPU_API_KEY |-> secret]
    /\ ran = <<>>
    /\ response = Undefined
    /\ upstream = <<>>
    /\ CallsIdle
    /\ HeapIdle
    /\ LaterIdle

\* fetch, up to the return of a handler that does not wait, or up to the
\* first await of handleAIAnalyze.
Fetch ==
    /\ pc = "fetch"
    /\ LET action == SearchParamsGet(request.query, S("act"))
           handlers == Dispatch(action)
       IN  /\ ran' = handlers
           /\ IF handlers[1] = "handleAIAnalyze"
              THEN /\ pc' = "handleAIAnalyze: await request.json()"
                   /\ UNCHANGED response
              ELSE /\ pc' = "responded"
                   /\ response' = CASE handlers[1] = "handlePing" -> handlePing
                                    [] handlers[1] = "handleGetIPInfo" -> handleGetIPInfo(request)
                                    [] OTHER -> renderHTML(request)
    /\ UNCHANGED <<request, env, upstream, callVars, heapVars, laterVars>>

\* index.js:85-113: request.json() settles; then the secret is read and
\* tested, and the upstream request is sent.
RequestJsonSettles ==
    /\ pc = "handleAIAnalyze: await request.json()"
    /\ IF ~request.body.json
       THEN /\ response' = Thrown(S("Unexpected end of JSON input")).response
            /\ pc' = Thrown(S("Unexpected end of JSON input")).pc
            /\ UNCHANGED upstream
       ELSE LET apiKey == env.ZHIPU_API_KEY
            IN  IF KeyMissing(apiKey)
                THEN /\ response' = ErrorResponse(KeyNotConfigured)
                     /\ pc' = "responded"
                     /\ UNCHANGED upstream
                ELSE /\ upstream' = Append(upstream, ZhipuRequest(apiKey, request.body))
                     /\ pc' = "handleAIAnalyze: await fetch()"
                     /\ UNCHANGED response
    /\ UNCHANGED <<request, env, ran, callVars, heapVars, laterVars>>

\* index.js:106-118, 163-169: the upstream fetch settles: it rejects, or it
\* answers; an answer that is OK is streamed back.
UpstreamFetchSettles ==
    /\ pc = "handleAIAnalyze: await fetch()"
    /\ \/ /\ response' = Thrown(ConnectionLost).response
          /\ pc' = Thrown(ConnectionLost).pc
          /\ UNCHANGED upstream
       \/ \E answer \in UpstreamAnswers :
            /\ upstream' = [upstream EXCEPT ![Len(upstream)].answer = answer]
            /\ IF answer.ok
               THEN /\ response' = [status |-> 200,
                                    contentType |-> "text/html; charset=utf-8",
                                    body |-> [t |-> "readable"]]
                    /\ pc' = "responded"
               ELSE /\ pc' = "handleAIAnalyze: await zhipuResponse.text()"
                    /\ UNCHANGED response
    /\ UNCHANGED <<request, env, ran, callVars, heapVars, laterVars>>

\* index.js:115-118, 167-169: the text of an answer that is not OK arrives
\* and is thrown, with the status, as an error; or reading it fails, which
\* throws the error of the failure.
ErrorTextSettles ==
    /\ pc = "handleAIAnalyze: await zhipuResponse.text()"
    /\ LET zhipuResponse == upstream[Len(upstream)].answer
           message == UpstreamFailed \o Decimal(zhipuResponse.status)
                          \o S(" ") \o zhipuResponse.text
       IN  \/ /\ upstream' = [upstream EXCEPT ![Len(upstream)].answer.read = TRUE]
              /\ response' = Thrown(message).response
              /\ pc' = Thrown(message).pc
           \/ /\ response' = Thrown(ConnectionLost).response
              /\ pc' = Thrown(ConnectionLost).pc
              /\ UNCHANGED upstream
    /\ UNCHANGED <<request, env, ran, callVars, heapVars, laterVars>>

NextWorker == Fetch \/ RequestJsonSettles \/ UpstreamFetchSettles \/ ErrorTextSettles

SpecWorker == InitWorker /\ [][NextWorker]_vars

----------------------------------------------------------------------------
(* Claims about the worker.                                                *)

\* The handler the routing table names for a query: that of the value of its
\* 'act' parameter (of the first, when the name is repeated).
HandlerFor(query) ==
    LET acts == SelectSeq(query, LAMBDA p : p.name = S("act"))
    IN  IF acts = <<>> THEN "renderHTML"
        ELSE CASE acts[1].value = S("analyze") -> "handleAIAnalyze"
               [] acts[1].value = S("ping") -> "handlePing"
               [] acts[1].value = S("get_ip_info") -> "handleGetIPInfo"
               [] OTHER -> "renderHTML"

\* C14: once fetch has routed a request, exactly one handler has run, and it
\* is the one named for the exact value of the 'act' parameter: 'analyze',
\* 'ping' and 'get_ip_info' have their handlers, any other value or no 'act'
\* parameter gives the page; the method, the path and the other parameters
\* play no part.
RouterDispatchesOnAct ==
    pc # "fetch" => ran = <<HandlerFor(request.query)>>

RouterDispatchesOnActWitness ==
    /\ pc = "responded"
    /\ request.method = "POST"
    /\ request.path = "/api/v1/info"
    /\ request.query = <<[name |-> S("t"), value |-> S("ping")],
                         [name |-> S("act"), value |-> S("get_ip_info")]>>
    /\ ran = <<"handleGetIPInfo">>
    /\ response.contentType = "application/json;charset=UTF-8"

\* What the platform supplies, or the stated default when it supplies nothing.
Supplied(val, default) == IF val = Undefined \/ val = Null THEN default ELSE val

\* C15: the get_ip_info document has ip (the CF-Connecting-IP header, or
\* '0.0.0.0' without it), node.code (the colo as supplied, or 'UNK'),
\* node.name and node.iso (those of translateColo(node.code)), asn (the
\* platform's, or 0), isp.raw (the platform's organization, or '') and
\* isp.name (that of identifyISP(isp.raw, asn)).
IpInfoDocument ==
    (pc = "responded" /\ ran = <<"handleGetIPInfo">>) =>
        LET cf == IF request.cf = Undefined THEN EmptyCf ELSE request.cf
            data == response.body
        IN  /\ data.ip = Supplied(request.connectingIp, Str(S("0.0.0.0")))
            /\ data.node.code = Supplied(cf.colo, Str(S("UNK")))
            /\ data.node.name = translateColo(data.node.code.v).name
            /\ data.node.iso = translateColo(data.node.code.v).iso
            /\ data.asn = Supplied(cf.asn, Num(0))
            /\ data.isp.raw = Supplied(cf.asOrganization, Str(<<>>))
            /\ data.isp.name = identifyISP(data.isp.raw.v, data.asn.v).name

IpInfoDocumentWitness ==
    /\ pc = "responded"
    /\ ran = <<"handleGetIPInfo">>
    /\ request.cf # Undefined
    /\ request.cf.colo = Str(S("lax"))
    /\ request.cf.asOrganization = Undefined
    /\ request.cf.asn = Num(45102)
    /\ request.connectingIp = Null
    /\ response.body.ip = Str(S("0.0.0.0"))
    /\ response.body.node.code = Str(S("lax"))
    /\ response.body.node.iso = Str(S("us"))
    /\ response.body.isp.raw = Str(<<>>)
    /\ response.body.isp.name = Str(UnknownNetwork)

\* C16: in every get_ip_info response, node.iso is a string, the ISO code of
\* the datacenter's country or region.
NodeIsoIsAlwaysString ==
    (pc = "responded" /\ ran = <<"handleGetIPInfo">>) =>
        /\ response.body.node.iso.t = "string"
        /\ Len(response.body.node.iso.v) = 2

\* Not configured: the secret is absent from env, or is empty.
NotConfigured(secret) == secret = Undefined \/ secret = Str(<<>>)

\* C17: without the ZHIPU_API_KEY secret, handleAIAnalyze sends nothing
\* upstream and answers with status 500.
NoKeyNoUpstreamRequest ==
    (ran = <<"handleAIAnalyze">> /\ NotConfigured(env.ZHIPU_API_KEY)) =>
        /\ upstream = <<>>
        /\ pc = "responded" => response.status = 500

NoKeyNoUpstreamRequestWitness ==
    /\ pc = "responded"
    /\ ran = <<"handleAIAnalyze">>
    /\ env.ZHIPU_API_KEY = Undefined
    /\ request.body.json
    /\ response = ErrorResponse(KeyNotConfigured)
    /\ upstream = <<>>

----------------------------------------------------------------------------
(* Calls made by the requests a worker handles at the same time.  A worker *)
(* runs one thread: identifyISP and translateColo await nothing, so a call *)
(* runs from entry to return without interruption, and the requests being  *)
(* handled interleave only between calls.  An object is a cell of the      *)
(* heap, and what a call returns is the address of a cell; a caller may    *)
(* write to the properties of an object it was given.                      *)

MaxCalls == 3

MaxWrites == 2

MaxContexts == 2

\* The requests being handled.
Contexts == 1..MaxContexts

\* A table hit in small letters and in capitals, and a miss.
ColoArguments == {S("nrt"), S("NRT"), S("XXX")}

\* A rule match and the fallback.
IspArguments ==
    { <<S("China Telecom"), 4134>>,
      <<S("Shiodome Sumitomo Blog 1-9-2 TOKYO"), 45102>> }

\* What a caller writes over a property.
Overwritten == Str(S("overwritten"))

\* What translateColo returns for each of these arguments.
ColoResults == [code \in ColoArguments |-> translateColo(code)]

\* What identifyISP returns for each of these arguments.
IspResults == [args \in IspArguments |-> identifyISP(args[1], args[2])]

\* The value a call returns.
Result(fn, input) ==
    IF fn = "translateColo" THEN ColoResults[input] ELSE IspResults[input]

\* Mutant: results kept in a module-level cache, one object for each
\* function and argument list.
NewObjectMemoised(heap_, journal_, fn, input, value) ==
    IF \E i \in 1..Len(journal_) : journal_[i].fn = fn /\ journal_[i].input = input
    THEN [heap |-> heap_,
          ref |-> journal_[CHOOSE i \in 1..Len(journal_) :
                              journal_[i].fn = fn /\ journal_[i].input = input].ref]
    ELSE [heap |-> Append(heap_, value), ref |-> Len(heap_) + 1]

\* Mutant: const map moved to module level, so that every hit on a key gives
\* the one entry object of the one table.
NewObjectFromSharedMap(heap_, journal_, fn, input, value) ==
    LET Same(i) == /\ journal_[i].fn = fn
                   /\ fn = "translateColo"
                   /\ value.iso # Null
                   /\ Result(fn, journal_[i].input) = value
    IN  IF \E i \in 1..Len(journal_) : Same(i)
        THEN [heap |-> heap_, ref |-> journal_[CHOOSE i \in 1..Len(journal_) : Same(i)].ref]
        ELSE [heap |-> Append(heap_, value), ref |-> Len(heap_) + 1]

\* index.js:873-925, 931-953: an object literal evaluated in a call is a new
\* object.  map is a const local to translateColo, built again by every
\* call, and every return of identifyISP is a literal evaluated in the call;
\* of the objects a call creates, only the one it returns outlives it.
NewObject(heap_, journal_, fn, input, value) ==
    [heap |-> Append(heap_, value), ref |-> Len(heap_) + 1]

InitCalls ==
    /\ pc = "serving"
    /\ HeapIdle
    /\ LaterIdle
    /\ CallsIdle
    /\ WorkerIdle

\* A request's handler calls fn with the arguments input.
Serve(ctx, fn, input) ==
    /\ pc = "serving"
    /\ Len(journal) < MaxCalls
    /\ LET made == NewObject(heap, journal, fn, input, Result(fn, input))
       IN  /\ heap' = made.heap
           /\ journal' = Append(journal, [ctx |-> ctx, fn |-> fn, input |-> input,
                                          ref |-> made.ref, out |-> made.heap[made.ref],
                                          after |-> writes])
    /\ UNCHANGED <<pc, writes, callVars, workerVars, laterVars>>

ServeTranslateColo ==
    \E ctx \in Contexts, code \in ColoArguments : Serve(ctx, "translateColo", code)

ServeIdentifyISP ==
    \E ctx \in Contexts, args \in IspArguments : Serve(ctx, "identifyISP", args)

\* A caller writes to a property of an object a call returned.
WriteToResult ==
    /\ pc = "serving"
    /\ writes < MaxWrites
    /\ \E i \in 1..Len(journal) :
          \E field \in DOMAIN heap[journal[i].ref] \ {"t"} :
              /\ heap[journal[i].ref][field] # Overwritten
              /\ heap' = [heap EXCEPT ![journal[i].ref][field] = Overwritten]
    /\ writes' = writes + 1
    /\ UNCHANGED <<pc, journal, callVars, workerVars, laterVars>>

NextCalls == ServeTranslateColo \/ ServeIdentifyISP \/ WriteToResult

SpecCalls == InitCalls /\ [][NextCalls]_vars

\* C11: two calls of the same function with the same arguments return the
\* same value, whichever requests made them, whatever calls came between
\* them and whatever the callers did to earlier results.
SameArgumentsSameResult ==
    \A i, j \in 1..Len(journal) :
        (journal[i].fn = journal[j].fn /\ journal[i].input = journal[j].input)
            => journal[i].out = journal[j].out

SameArgumentsSameResultWitness ==
    /\ Len(journal) = 3
    /\ writes = 1
    /\ journal[1].ctx # journal[3].ctx
    /\ journal[1].fn = journal[3].fn
    /\ journal[1].input = journal[3].input
    /\ journal[2].fn # journal[1].fn
    /\ heap[journal[1].ref] # journal[1].out
    /\ journal[3].after = 1
    /\ journal[3].out = journal[1].out

\* C19: no two calls return the same object, and a call made after callers
\* have written to earlier results returns the documented value for its
\* arguments: the entry or the miss result, the identity or the fallback.
ResultsAreNotAliased ==
    \A j \in 1..Len(journal) :
        /\ \A i \in 1..(j - 1) : journal[i].ref # journal[j].ref
        /\ journal[j].out = Result(journal[j].fn, journal[j].input)

ResultsAreNotAliasedWitness ==
    /\ Len(journal) = 2
    /\ writes = 2
    /\ journal[1].fn = "translateColo"
    /\ journal[1].input = S("nrt")
    /\ heap[journal[1].ref].name = Overwritten
    /\ heap[journal[1].ref].iso = Overwritten
    /\ journal[2].after = 2
    /\ journal[2].input = S("NRT")
    /\ journal[2].out = ColoEntry(<<"U+4E1C", "U+4EAC">>, S("jp"))

----------------------------------------------------------------------------
(* The two builds of handleGetIPInfo: that of src/src/index.js and that of *)
(* the bundled build .wrangler/tmp/dev-DLVR8X/index.js, whose identifyISP  *)
(* (lines 805-855) and translateColo (lines 857-881) are, statement for    *)
(* statement, those of src/src/index.js.  Both are given the same request. *)

\* Mutant: the earlier build reporting the raw organization as isp.name.
handleGetIPInfoBundledUnclassified(req) ==
    LET cf == Or(req.cf, EmptyCf)
        rawIsp_ == Or(cf.asOrganization, Str(<<>>))
        asn_ == Or(cf.asn, Num(0))
        ip == Or(HeadersGetConnectingIp(req), Str(S("0.0.0.0")))
        colo == Or(cf.colo, Str(S("UNK")))
        nodeInfo_ == translateColo(colo.v)
    IN  [status |-> 200,
         contentType |-> "application/json;charset=UTF-8",
         body |-> [ip |-> ip,
                   node |-> [code |-> colo, name |-> nodeInfo_.name, iso |-> nodeInfo_.iso],
                   asn |-> asn_,
                   isp |-> [name |-> rawIsp_, raw |-> rawIsp_]]]

\* .wrangler/tmp/dev-DLVR8X/index.js:21-48
handleGetIPInfoBundled(req) ==
    LET cf == Or(req.cf, EmptyCf)
        rawIsp_ == Or(cf.asOrganization, Str(<<>>))
        asn_ == Or(cf.asn, Num(0))
        ip == Or(HeadersGetConnectingIp(req), Str(S("0.0.0.0")))
        colo == Or(cf.colo, Str(S("UNK")))
        nodeInfo_ == translateColo(colo.v)
        ispInfo_ == identifyISP(rawIsp_.v, asn_.v)
    IN  [status |-> 200,
         contentType |-> "application/json;charset=UTF-8",
         body |-> [ip |-> ip,
                   node |-> [code |-> colo, name |-> nodeInfo_.name, iso |-> nodeInfo_.iso],
                   asn |-> asn_,
                   isp |-> [name |-> ispInfo_.name, raw |-> rawIsp_]]]

InitBuilds ==
    /\ pc = "get_ip_info"
    /\ \E cf \in Cfs \cup {Undefined}, ip \in ConnectingIps :
            request = [method |-> "GET", path |-> "/",
                       query |-> <<[name |-> S("act"), value |-> S("get_ip_info")]>>,
                       connectingIp |-> ip, cf |-> cf, body |-> [json |-> FALSE]]
    /\ env = [ZHIPU_API_KEY |-> Undefined]
    /\ ran = <<>>
    /\ response = Undefined
    /\ upstream = <<>>
    /\ CallsIdle
    /\ HeapIdle
    /\ LaterIdle

\* The build of src/src/index.js answers the request.
ServeSource ==
    /\ pc = "get_ip_info"
    /\ response = Undefined
    /\ response' = handleGetIPInfo(request)
    /\ UNCHANGED <<pc, request, env, ran, upstream, callVars, heapVars, laterVars>>

\* The bundled build answers the request.
ServeBundled ==
    /\ pc = "get_ip_info"
    /\ bundled = Undefined
    /\ bundled' = handleGetIPInfoBundled(request)
    /\ UNCHANGED <<pc, callVars, workerVars, heapVars, pumpVars, clientVars>>

NextBuilds == ServeSource \/ ServeBundled

SpecBuilds == InitBuilds /\ [][NextBuilds]_vars

\* C21: for one request, the document of src/src/index.js restricted to ip,
\* node, asn and isp is the document of the bundled build; what the first
\* has more is location, whose country, region and city are the platform's
\* or '', and rtt.
BuildsAgreeOnCommonPart ==
    (response # Undefined /\ bundled # Undefined) =>
        LET data == response.body
            earlier == bundled.body
            cf == IF request.cf = Undefined THEN EmptyCf ELSE request.cf
        IN  /\ [field \in {"ip", "node", "asn", "isp"} |-> data[field]] = earlier
            /\ DOMAIN data \ DOMAIN earlier = {"location", "rtt"}
            /\ DOMAIN earlier \subseteq DOMAIN data
            /\ data.location = [country |-> Supplied(cf.country, Str(<<>>)),
                                region |-> Supplied(cf.region, Str(<<>>)),
                                city |-> Supplied(cf.city, Str(<<>>))]

BuildsAgreeOnCommonPartWitness ==
    /\ response # Undefined
    /\ bundled # Undefined
    /\ request.cf # Undefined
    /\ request.cf.colo = Str(S("XXX"))
    /\ request.cf.asOrganization = Str(S("AS4134 CHINANET-BACKBONE No.31,Jin-rong Street"))
    /\ request.cf.city = Undefined
    /\ request.cf.country = Str(S("JP"))
    /\ bundled.body.node.iso = Null
    /\ bundled.body.isp.name = response.body.isp.name
    /\ response.body.location.city = Str(<<>>)
    /\ response.body.location.country = Str(S("JP"))

----------------------------------------------------------------------------
(* Claims about the page renderHTML fills.                                 *)

\* What the platform gave the request, every property undefined without it.
CfOf(req) == IF req.cf = Undefined THEN EmptyCf ELSE req.cf

\* C22: the node cell of the page has a flag image, of path <iso>.png,
\* exactly when translateColo(colo).iso is not null; for a colo outside the
\* table, or none, the cell is the upper-cased code, then the code as given
\* in parentheses, and no image.
FlagExactlyForKnownNodes ==
    (pc = "responded" /\ ran = <<"renderHTML">>) =>
        LET colo == Supplied(CfOf(request).colo, Str(S("UNK")))
            entry == translateColo(colo.v)
            html == response.body.coloHtml.v
        IN  /\ includes(html, S("<img")) <=> entry.iso # Null
            /\ entry.iso # Null =>
                   includes(html, S("/") \o entry.iso.v \o S(".png\""))
            /\ entry.iso = Null =>
                   html = toUpperCase(colo.v) \o S(" <span style=\"opacity:0.6\">(")
                              \o colo.v \o S(")</span>")

FlagExactlyForKnownNodesWitness ==
    /\ pc = "responded"
    /\ ran = <<"renderHTML">>
    /\ request.cf # Undefined
    /\ request.cf.colo = Str(S("zzz"))
    /\ response.body.coloHtml = Str(S("ZZZ <span style=\"opacity:0.6\">(zzz)</span>"))

\* The handshake time the page works with: Number(clientTcpRtt), or 0 when
\* that is not a number or is 0.
NormalisedRtt(req) ==
    LET n == ToNumber(CfOf(req).clientTcpRtt)
    IN  IF n.t = "number" THEN n.v ELSE 0

\* C23: the page is marked isHttp3, and shows the measuring text, exactly
\* when the normalised handshake time is 0; otherwise it shows the time in
\* red above 350, in amber above 150 and up to 350, and in green up to 150.
RttColourBands ==
    (pc = "responded" /\ ran = <<"renderHTML">>) =>
        LET rtt == NormalisedRtt(request)
            page == response.body
        IN  /\ page.isHttp3 <=> rtt = 0
            /\ includes(page.rttDisplay.v, <<"U+6D4B", "U+901F", "U+4E2D">> \o S("..."))
                   <=> rtt = 0
            /\ rtt # 0 =>
                   /\ page.rttDisplay = Str(Decimal(rtt) \o S(" ms"))
                   /\ page.rttColor = IF rtt > 350 THEN Str(S("#ef4444"))
                                      ELSE IF rtt > 150 THEN Str(S("#f59e0b"))
                                      ELSE Str(S("#10b981"))

RttColourBandsWitness ==
    /\ pc = "responded"
    /\ ran = <<"renderHTML">>
    /\ request.cf # Undefined
    /\ request.cf.clientTcpRtt = Num(350)
    /\ ~response.body.isHttp3
    /\ response.body.rttDisplay = Str(S("350 ms"))
    /\ response.body.rttColor = Str(S("#f59e0b"))

\* The request was sent upstream and the fetch rejected.
FetchRejected ==
    /\ upstream # <<>>
    /\ upstream[Len(upstream)].answer = Undefined
    /\ pc # "handleAIAnalyze: await fetch()"

\* The upstream answered with a status that is not OK.
AnsweredNotOk ==
    /\ upstream # <<>>
    /\ upstream[Len(upstream)].answer # Undefined
    /\ ~upstream[Len(upstream)].answer.ok

\* The message made of the status and the text of the answer that was not OK.
NotOkMessage ==
    LET zhipuResponse == upstream[Len(upstream)].answer
    IN  <<"U+667A", "U+8C31">> \o S("AI API ")
            \o <<"U+8BF7", "U+6C42", "U+5931", "U+8D25">> \o S(": ")
            \o Decimal(zhipuResponse.status) \o S(" ") \o zhipuResponse.text

\* C24 as stated: the handler never rejects, and for a body that is not
\* JSON, an upstream fetch that throws, or an upstream answer that is not
\* OK, it returns a 500 response, not a stream, whose body is the error
\* message: for an answer that is not OK, the one with its status and text.
ErrorsAnswered500WithStatusAndText ==
    (ran = <<"handleAIAnalyze">>) =>
        /\ pc # "rejected"
        /\ (pc = "responded" /\ (~request.body.json \/ FetchRejected \/ AnsweredNotOk)) =>
               /\ response.status = 500
               /\ response.body.t = "string"
               /\ AnsweredNotOk => response.body = Str(NotOkMessage)

\* C24, amended: the same, the message having the status and the text of an
\* answer that is not OK when the text was read; when reading it fails, the
\* body is the message of that failure.
ErrorsAnswered500 ==
    (ran = <<"handleAIAnalyze">>) =>
        /\ pc # "rejected"
        /\ (pc = "responded" /\ (~request.body.json \/ FetchRejected \/ AnsweredNotOk)) =>
               /\ response.status = 500
               /\ response.body.t = "string"
               /\ response.body.v # <<>>
               /\ (AnsweredNotOk /\ upstream[Len(upstream)].answer.read) =>
                      response.body = Str(NotOkMessage)
               /\ (AnsweredNotOk /\ ~upstream[Len(upstream)].answer.read) =>
                      response.body = Str(ConnectionLost)

ErrorsAnswered500Witness ==
    /\ pc = "responded"
    /\ ran = <<"handleAIAnalyze">>
    /\ AnsweredNotOk
    /\ upstream[1].answer.status = 401
    /\ upstream[1].answer.read
    /\ response.status = 500
    /\ response.body = Str(<<"U+667A", "U+8C31">> \o S("AI API ")
                             \o <<"U+8BF7", "U+6C42", "U+5931", "U+8D25">>
                             \o S(": 401 {\"error\":\"unauthorized\"}"))

----------------------------------------------------------------------------
(* The analyze pump, index.js:120-165: the async function handleAIAnalyze  *)
(* starts, without awaiting it, before it returns the readable side of a   *)
(* TransformStream.  The pump reads the upstream body chunk by chunk,      *)
(* decodes it, cuts it into lines and writes the content of each data line *)
(* to the writable side.  A byte of an ASCII character is that character;  *)
(* U+00E9 is the two bytes 0xC3 0xA9.  A run of JSON punctuation is taken  *)
(* as one character, which no chunk boundary cuts.                         *)

LF == "\n"

CR == "\r"

JsonOpen == "{\"choices\":[{\"delta\":{\"content\":\""

JsonClose == "\"}}]}"

JsonNoChoices == "{\"error\":{\"code\":\"1301\"}}"

JsonBroken == "{\"choices\":[{\"del"

WhiteSpace == {" ", "\t", LF, CR}

\* TextDecoder: the characters of a run of bytes, and the bytes of an
\* unfinished character at its end.
DecodeBytes(bytes) ==
    LET n == Len(bytes)
        Led(i) == i > 1 /\ bytes[i - 1] = "0xC3"
        chars == [i \in 1..n |->
                    IF bytes[i] = "0xC3"
                    THEN IF i < n /\ bytes[i + 1] = "0xA9" THEN "U+00E9"
                         ELSE IF i = n THEN "held"
                         ELSE "U+FFFD"
                    ELSE IF bytes[i] = "0xA9"
                    THEN IF Led(i) THEN "second byte" ELSE "U+FFFD"
                    ELSE bytes[i]]
    IN  [chars |-> SelectSeq(chars, LAMBDA c : c \notin {"held", "second byte"}),
         held |-> IF n > 0 /\ bytes[n] = "0xC3" THEN <<"0xC3">> ELSE <<>>]

\* Mutant: decoder.decode(value), without { stream: true }: an unfinished
\* character at the end of a chunk is replaced, not held.
decodeWithoutStream(pending_, value) ==
    LET r == DecodeBytes(value)
    IN  [chars |-> r.chars \o (IF r.held = <<>> THEN <<>> ELSE <<"U+FFFD">>),
         held |-> <<>>]

\* index.js:134: decoder.decode(value, { stream: true })
decode(pending_, value) == DecodeBytes(pending_ \o value)

\* index.js:147: encoder.encode(content)
RECURSIVE encode(_)
encode(chars) ==
    IF chars = <<>> THEN <<>>
    ELSE (IF chars[1] = "U+00E9" THEN <<"0xC3", "0xA9">> ELSE <<chars[1]>>)
             \o encode(Tail(chars))

\* String.prototype.trim
RECURSIVE trim(_)
trim(chars) ==
    IF chars = <<>> THEN <<>>
    ELSE IF chars[1] \in WhiteSpace THEN trim(Tail(chars))
    ELSE IF chars[Len(chars)] \in WhiteSpace THEN trim(SubSeq(chars, 1, Len(chars) - 1))
    ELSE chars

\* String.prototype.startsWith
startsWith(chars, prefix) ==
    Len(chars) >= Len(prefix) /\ SubSeq(chars, 1, Len(prefix)) = prefix

\* buffer.indexOf('\n'), counted from 1: 0 when there is none.
indexOf(chars, c) ==
    IF \E i \in 1..Len(chars) : chars[i] = c
    THEN CHOOSE i \in 1..Len(chars) : chars[i] = c /\ \A j \in 1..(i - 1) : chars[j] # c
    ELSE 0

\* JSON.parse, for the texts of the model: a document with a content, a
\* document without choices, or a SyntaxError.
JSONParse(text) ==
    LET json == trim(text)
    IN  IF /\ Len(json) >= 2
           /\ json[1] = JsonOpen
           /\ json[Len(json)] = JsonClose
           /\ \A i \in 2..(Len(json) - 1) :
                  json[i] \notin {JsonOpen, JsonClose, JsonNoChoices, JsonBroken, "\""}
        THEN [t |-> "object",
              choices |-> [t |-> "array",
                           items |-> <<[delta |-> [content |->
                                           Str(SubSeq(json, 2, Len(json) - 1))]]>>]]
        ELSE IF json = <<JsonNoChoices>> THEN [t |-> "object", choices |-> Undefined]
        ELSE [t |-> "SyntaxError"]

\* index.js:137, 140-151: what the pump writes for the text cut from the
\* buffer up to a line feed: nothing, when nothing is written.
lineContent(cut) ==
    LET line == trim(cut)
    IN  IF ~startsWith(line, S("data: ")) THEN <<>>
        ELSE LET jsonStr == SubSeq(line, 7, Len(line))
                 data == JSONParse(jsonStr)
             IN  IF trim(jsonStr) = S("[DONE]") THEN <<>>
                 ELSE IF data.t = "SyntaxError" THEN <<>>
                 ELSE IF data.choices = Undefined THEN <<>>
                 ELSE Or(data.choices.items[1].delta.content, Str(<<>>)).v

MaxLines == 2

\* Lines an upstream body is made of: data lines with a content (ASCII, not
\* ASCII, empty, followed by a carriage return), the end marker, an empty
\* line, a comment, data lines that do not parse or have no choices, a data
\* line after a space, and one without the space after the colon.
LineTexts ==
    { S("data: ") \o <<JsonOpen, "H", "i", JsonClose>>,
      S("data: ") \o <<JsonOpen, "U+00E9", JsonClose>>,
      S("data: ") \o <<JsonOpen, JsonClose>>,
      S("data: ") \o <<JsonOpen, "!", JsonClose, CR>>,
      S("data: [DONE]"),
      <<>>,
      S(": k"),
      S("data: ") \o <<JsonBroken>>,
      S("data: ") \o <<JsonNoChoices>>,
      S(" data: ") \o <<JsonOpen, "o", "k", JsonClose>>,
      S("data:") \o <<JsonOpen, "n", "o", JsonClose>> }

\* What may follow the last line feed.
Tails == {<<>>, S("data: ") \o <<JsonOpen, "c", "u", "t", JsonClose>>}

RECURSIVE JoinLines(_)
JoinLines(lines) ==
    IF lines = <<>> THEN <<>> ELSE lines[1] \o <<LF>> \o JoinLines(Tail(lines))

InitPump ==
    /\ pc = "pump: await reader.read()"
    /\ \E n \in 0..MaxLines : \E lines \in [1..n -> LineTexts], tail \in Tails :
            stream = encode(JoinLines(lines) \o tail)
    /\ failing \in BOOLEAN
    /\ delivered = 0
    /\ pending = <<>>
    /\ buffer = <<>>
    /\ output = <<>>
    /\ writerLog = <<>>
    /\ ClientIdle
    /\ bundled = Undefined
    /\ CallsIdle
    /\ WorkerIdle
    /\ HeapIdle

\* index.js:131-134: reader.read() gives the next chunk, of any size.
ReadChunk ==
    /\ pc = "pump: await reader.read()"
    /\ \E n \in 1..(Len(stream) - delivered) :
          LET value == SubSeq(stream, delivered + 1, delivered + n)
              decoded == decode(pending, value)
          IN  /\ buffer' = buffer \o decoded.chars
              /\ pending' = decoded.held
              /\ delivered' = delivered + n
    /\ pc' = "pump: lines"
    /\ UNCHANGED <<stream, failing, output, writerLog, bundled, callVars, workerVars, heapVars, clientVars>>

\* index.js:136-152: one turn of the inner loop, up to the write of a
\* content or to the next turn; without a line feed in the buffer, back to
\* reading.
NextLine ==
    /\ pc = "pump: lines"
    /\ LET boundary == indexOf(buffer, LF)
       IN  IF boundary = 0
           THEN /\ pc' = "pump: await reader.read()"
                /\ UNCHANGED <<buffer, writerLog>>
           ELSE LET content == lineContent(SubSeq(buffer, 1, boundary - 1))
                IN  /\ buffer' = SubSeq(buffer, boundary + 1, Len(buffer))
                    /\ IF content # <<>>
                       THEN /\ writerLog' = Append(writerLog,
                                                   [op |-> "write", chunk |-> encode(content)])
                            /\ pc' = "pump: await writer.write()"
                       ELSE /\ pc' = "pump: lines"
                            /\ UNCHANGED writerLog
    /\ UNCHANGED <<stream, delivered, failing, pending, output, bundled,
                   callVars, workerVars, heapVars, clientVars>>

\* index.js:147: the client reads what was written, and the write settles.
WriteSettles ==
    /\ pc = "pump: await writer.write()"
    /\ output' = output \o writerLog[Len(writerLog)].chunk
    /\ pc' = "pump: lines"
    /\ UNCHANGED <<stream, delivered, failing, pending, buffer, writerLog, bundled,
                   callVars, workerVars, heapVars, clientVars>>

\* Mutant: the break also closes the writer, before the finally does.
ReadDoneClosing ==
    /\ pc = "pump: await reader.read()"
    /\ delivered = Len(stream)
    /\ ~failing
    /\ writerLog' = Append(writerLog, [op |-> "close", chunk |-> <<>>])
    /\ pc' = "pump: finally"
    /\ UNCHANGED <<stream, delivered, failing, pending, buffer, output, bundled,
                   callVars, workerVars, heapVars, clientVars>>

\* index.js:131-132: the upstream body has ended: done, break.
ReadDone ==
    /\ pc = "pump: await reader.read()"
    /\ delivered = Len(stream)
    /\ ~failing
    /\ pc' = "pump: finally"
    /\ UNCHANGED <<pumpVars, bundled, callVars, workerVars, heapVars, clientVars>>

\* index.js:131, 155: reader.read() rejects, which the outer catch catches.
ReadFails ==
    /\ pc = "pump: await reader.read()"
    /\ failing
    /\ pc' = "pump: catch"
    /\ UNCHANGED <<pumpVars, bundled, callVars, workerVars, heapVars, clientVars>>

\* index.js:155-157: await writer.abort(error)
Abort ==
    /\ pc = "pump: catch"
    /\ writerLog' = Append(writerLog, [op |-> "abort", chunk |-> <<>>])
    /\ pc' = "pump: finally"
    /\ UNCHANGED <<stream, delivered, failing, pending, buffer, output, bundled,
                   callVars, workerVars, heapVars, clientVars>>

\* The writer has been aborted: it is errored.
Errored(log) == \E i \in 1..Len(log) : log[i].op = "abort"

\* index.js:158-160: finally, await writer.close(): closing an errored
\* writer rejects, and nothing catches that.
Close ==
    /\ pc = "pump: finally"
    /\ writerLog' = Append(writerLog, [op |-> "close", chunk |-> <<>>])
    /\ pc' = IF Errored(writerLog) THEN "pump: rejected" ELSE "pump: done"
    /\ UNCHANGED <<stream, delivered, failing, pending, buffer, output, bundled,
                   callVars, workerVars, heapVars, clientVars>>

NextPump == ReadChunk \/ NextLine \/ WriteSettles \/ ReadDone \/ ReadFails \/ Abort \/ Close

SpecPump == InitPump /\ [][NextPump]_vars

\* Bodies of a line that is written and of one that is not: a content, and
\* the end marker.
InitPumpFair ==
    /\ InitPump
    /\ \E n \in 0..MaxLines :
          \E lines \in [1..n -> { S("data: ") \o <<JsonOpen, "U+00E9", JsonClose>>,
                                  S("data: [DONE]") }],
             tail \in Tails :
                stream = encode(JoinLines(lines) \o tail)

\* The upstream keeps delivering, the client keeps reading and the worker
\* keeps running the pump.
SpecPumpFair == InitPumpFair /\ [][NextPump]_vars /\ WF_vars(NextPump)

----------------------------------------------------------------------------
(* Claims about the analyze pump.                                          *)

\* The content a line contributes: that of choices[0].delta.content when
\* the line starts with 'data: ' and what follows is not the end marker and
\* parses as JSON with choices.
DataLineContent(line) ==
    IF ~startsWith(line, S("data: ")) THEN <<>>
    ELSE LET payload == SubSeq(line, 7, Len(line))
             data == JSONParse(payload)
         IN  IF trim(payload) = S("[DONE]") \/ data.t = "SyntaxError" THEN <<>>
             ELSE IF data.choices = Undefined THEN <<>>
             ELSE data.choices.items[1].delta.content.v

\* The contents of the lines of a text that end with a line feed, in order,
\* each line taken as it stands or with the white space around it removed.
RECURSIVE Contents(_, _)
Contents(chars, trimmed) ==
    LET boundary == indexOf(chars, LF)
        line == SubSeq(chars, 1, boundary - 1)
    IN  IF boundary = 0 THEN <<>>
        ELSE DataLineContent(IF trimmed THEN trim(line) ELSE line)
                 \o Contents(SubSeq(chars, boundary + 1, Len(chars)), trimmed)

IsPrefix(p, q) == Len(p) <= Len(q) /\ SubSeq(q, 1, Len(p)) = p

\* C25 as stated: what the client has been sent is the start of, and at the
\* end of the body is all of, the contents of the upstream lines that start
\* with 'data: ', however the body was cut into chunks.
StreamedIsDataLineContents ==
    LET expected == encode(Contents(DecodeBytes(stream).chars, FALSE))
    IN  /\ IsPrefix(output, expected)
        /\ pc = "pump: done" => output = expected

\* C25, amended: the same for the lines that start with 'data: ' once the
\* white space around them is removed.
StreamedIsTrimmedDataLineContents ==
    LET expected == encode(Contents(DecodeBytes(stream).chars, TRUE))
    IN  /\ IsPrefix(output, expected)
        /\ pc = "pump: done" => output = expected

\* A chunk has ended inside a line and inside a character, after a content
\* was sent.
StreamedIsTrimmedDataLineContentsWitness ==
    /\ pc = "pump: await reader.read()"
    /\ output = S("Hi")
    /\ pending = <<"0xC3">>
    /\ buffer = S("data: ") \o <<JsonOpen>>

CloseCount == Cardinality({i \in 1..Len(writerLog) : writerLog[i].op = "close"})

\* C26: the writer is closed at most once and nothing is written after a
\* close; and when the upstream body ends, the pump comes to its end with
\* the writer closed once.
PumpClosesOnceAndEnds ==
    /\ [](/\ CloseCount <= 1
          /\ \A i, j \in 1..Len(writerLog) :
                 (writerLog[i].op = "close" /\ i < j) => writerLog[j].op # "write")
    /\ (~failing) ~> (pc = "pump: done" /\ CloseCount = 1)

PumpClosesOnceAndEndsWitness ==
    /\ pc = "pump: done"
    /\ ~failing
    /\ output = <<"0xC3", "0xA9", "0xC3", "0xA9">>
    /\ writerLog[Len(writerLog)].op = "close"
    /\ CloseCount = 1

\* C27: once the pump has aborted the writer, after a read of the upstream
\* body failed, it makes no other call on the writer: no write, no close.
NothingAfterAbort ==
    /\ pc \in {"pump: finally", "pump: done", "pump: rejected"} /\ failing
           => Errored(writerLog)
    /\ \A i \in 1..Len(writerLog) : writerLog[i].op = "abort" => i = Len(writerLog)

----------------------------------------------------------------------------
(* The page in a browser: the script renderHTML writes, index.js:544-856.  *)
(* The script is one classic script: the browser parses the whole of it    *)
(* before it runs any of it.  The charts, the colours, the labels and the  *)
(* initial RTT measurement of the page are left out.                       *)

\* index.js:436-439: the text of the three elements before the script runs.
Querying == <<"U+67E5", "U+8BE2", "U+4E2D">> \o S("...")

\* index.js:550, 572: "不可用"
Unavailable == <<"U+4E0D", "U+53EF", "U+7528">>

\* index.js:559: "查询失败"
LookupFailed == <<"U+67E5", "U+8BE2", "U+5931", "U+8D25">>

\* index.js:569: "查询超时"
LookupTimedOut == <<"U+67E5", "U+8BE2", "U+8D85", "U+65F6">>

\* index.js:567: "未知"
UnknownPlace == <<"U+672A", "U+77E5">>

\* Whether the characters written between two apostrophes end the string
\* literal before its closing apostrophe, or break it: an apostrophe or a
\* line terminator among them (none of the model's values has a backslash).
endsLiteral(chars) == \E i \in 1..Len(chars) : chars[i] \in {"'", LF, CR}

\* index.js:811, 814, 815, 818: the string literals of the script that the
\* template fills with values of the request.  The script parses when each
\* of them is a string literal.
scriptParses(page) ==
    /\ ~endsLiteral(page.ip.v)
    /\ ~endsLiteral(page.ispInfo.name.v)
    /\ ~endsLiteral(page.locationStr.v)
    /\ ~endsLiteral(page.nodeInfo.name.v \o S(" (") \o page.colo.v \o S(")"))

\* index.js:809-818: the userInfo startAiAnalysis builds when it is called,
\* as far as it depends on the page's elements.
startAiAnalysis(dom_) ==
    [ipv4_address |-> dom_.ipv4Addr, ipv6_address |-> dom_.ipv6Addr,
     api_location |-> dom_.extLoc]

\* index.js:622: historyLimit, 200 in the source.
historyLimit == 2

\* The ping targets the model switches between, of index.js:628-636.
PingTargetIds == {1, 2, 7}

\* How many pings may wait for their fetch at a time.
MaxInFlight == 2

\* How many interval timers a page sets.
MaxTimers == 4

\* What a ping measures: 0 for a fetch that failed (index.js:776).
Durations == {0, 42}

\* new Array(n).fill(0), and pingData.fill(0)
Zeros(n) == [i \in 1..n |-> 0]

\* Mutant: startMonitor without its clearInterval.
startMonitorKeeping(timers_, pingInterval_, issued_) ==
    [timers |-> timers_ \cup {issued_ + 1}, pingInterval |-> Num(issued_ + 1),
     issued |-> issued_ + 1]

\* index.js:789-793: the timers startMonitor leaves (its doRealTimePing call
\* is in the actions).
startMonitor(timers_, pingInterval_, issued_) ==
    [timers |-> (IF Truthy(pingInterval_) THEN timers_ \ {pingInterval_.v} ELSE timers_)
                    \cup {issued_ + 1},
     pingInterval |-> Num(issued_ + 1),
     issued |-> issued_ + 1]

\* index.js:794-796
stopMonitor(timers_, pingInterval_, issued_) ==
    IF Truthy(pingInterval_)
    THEN [timers |-> timers_ \ {pingInterval_.v}, pingInterval |-> Null, issued |-> issued_]
    ELSE [timers |-> timers_, pingInterval |-> pingInterval_, issued |-> issued_]

InFlightTotal == inFlight[1] + inFlight[2] + inFlight[7]

\* The requests whose page is loaded.
PageCfs ==
    { [CfExample EXCEPT !.city = city, !.asOrganization = org] :
          city \in {Undefined, Str(S("Tokyo")), Str(S("L'Aquila"))},
          org \in {Str(<<>>), Str(S("Shiodome Sumitomo Blog 1-9-2 TOKYO")),
                   Str(S("Universite d'Angers"))} }

InitPage ==
    /\ pc = "fetch"
    /\ \E cf \in PageCfs, ip \in ConnectingIps :
           request = [method |-> "GET", path |-> "/", query |-> <<>>,
                      connectingIp |-> ip, cf |-> cf, body |-> [json |-> FALSE]]
    /\ env = [ZHIPU_API_KEY |-> Str(S("k3y.s3cret"))]
    /\ ran = <<>>
    /\ response = Undefined
    /\ upstream = <<>>
    /\ CallsIdle
    /\ HeapIdle
    /\ LaterIdle

\* The browser loads the page it was answered with.  When the script parses
\* its top level runs: fetchIpDetails() (index.js:576) starts the IPv6 and
\* the IPv4 lookup, and startMonitor() (index.js:800) pings and sets the
\* timer.  When it does not parse, none of it runs.
LoadPage ==
    /\ pc = "responded"
    /\ ran = <<"renderHTML">>
    /\ pc' = "page: loaded"
    /\ dom' = [ipv6Addr |-> Querying, ipv4Addr |-> Querying, extLoc |-> Querying]
    /\ analyses' = <<>>
    /\ hidden' \in BOOLEAN
    /\ lastChange' = "none"
    /\ IF scriptParses(response.body)
       THEN /\ script' = "running"
            /\ lookups' = [ipv6 |-> "fetching", ipv4 |-> "fetching", geo |-> "not started"]
            /\ currentTargetId' = 1
            /\ pingData' = Zeros(historyLimit)
            /\ measured' = Zeros(historyLimit)
            /\ inFlight' = [id \in PingTargetIds |-> IF id = 1 THEN 1 ELSE 0]
            /\ LET started == startMonitor({}, Null, 0)
               IN  /\ timers' = started.timers
                   /\ pingInterval' = started.pingInterval
                   /\ issued' = started.issued
       ELSE /\ script' = "syntax error"
            /\ lookups' = [ipv6 |-> "not started", ipv4 |-> "not started",
                           geo |-> "not started"]
            /\ currentTargetId' = 0
            /\ pingData' = <<>>
            /\ measured' = <<>>
            /\ inFlight' = [id \in PingTargetIds |-> 0]
            /\ pingInterval' = Null
            /\ timers' = {}
            /\ issued' = 0
    /\ UNCHANGED <<callVars, workerVars, heapVars, bundled, pumpVars>>

\* index.js:547-551: the IPv6 lookup settles: the fetch and the reading of
\* its text succeed, or one of them fails.
Ipv6Settles ==
    /\ script = "running"
    /\ lookups.ipv6 = "fetching"
    /\ lookups' = [lookups EXCEPT !.ipv6 = "settled"]
    /\ \E text \in {S("2001:db8::7") \o <<LF>>, Unavailable} :
           dom' = [dom EXCEPT !.ipv6Addr = trim(text)]
    /\ UNCHANGED <<pc, callVars, workerVars, heapVars, bundled, pumpVars, script, analyses,
                   currentTargetId, pingData, measured, inFlight, pingInterval, timers,
                   issued, hidden, lastChange>>

\* index.js:553, 571-574: the fetch of the IPv4 lookup settles: with a
\* response, whose text is then read, or with an error, which the catch of
\* the chain gets.
Ipv4FetchSettles ==
    /\ script = "running"
    /\ lookups.ipv4 = "fetching"
    /\ \/ /\ lookups' = [lookups EXCEPT !.ipv4 = "reading"]
          /\ UNCHANGED <<dom, analyses>>
       \/ /\ lookups' = [lookups EXCEPT !.ipv4 = "failed"]
          /\ dom' = [dom EXCEPT !.ipv4Addr = Unavailable]
          /\ analyses' = Append(analyses, startAiAnalysis(dom'))
    /\ UNCHANGED <<pc, callVars, workerVars, heapVars, bundled, pumpVars, script,
                   currentTargetId, pingData, measured, inFlight, pingInterval, timers,
                   issued, hidden, lastChange>>

\* index.js:553-574: res.text() settles.  With a text, the two then handlers
\* run: the first writes the trimmed text, the second starts the analysis
\* when it is empty and the geo lookup when it is not.  With an error, the
\* catch of the chain runs.
Ipv4TextSettles ==
    /\ script = "running"
    /\ lookups.ipv4 = "reading"
    /\ \/ \E ipv4 \in {S("198.51.100.4") \o <<LF>>, <<LF>>, <<>>} :
            LET cleanIpv4 == trim(ipv4)
            IN  IF cleanIpv4 = <<>>
                THEN /\ lookups' = [lookups EXCEPT !.ipv4 = "empty"]
                     /\ dom' = [dom EXCEPT !.ipv4Addr = cleanIpv4, !.extLoc = LookupFailed]
                     /\ analyses' = Append(analyses, startAiAnalysis(dom'))
                ELSE /\ lookups' = [lookups EXCEPT !.ipv4 = "address", !.geo = "fetching"]
                     /\ dom' = [dom EXCEPT !.ipv4Addr = cleanIpv4]
                     /\ UNCHANGED analyses
       \/ /\ lookups' = [lookups EXCEPT !.ipv4 = "failed"]
          /\ dom' = [dom EXCEPT !.ipv4Addr = Unavailable]
          /\ analyses' = Append(analyses, startAiAnalysis(dom'))
    /\ UNCHANGED <<pc, callVars, workerVars, heapVars, bundled, pumpVars, script,
                   currentTargetId, pingData, measured, inFlight, pingInterval, timers,
                   issued, hidden, lastChange>>

\* index.js:563-570: the fetch of the geo lookup settles: with a response,
\* whose JSON is then read, or with an error: the catch writes the text and
\* the finally starts the analysis.
GeoFetchSettles ==
    /\ script = "running"
    /\ lookups.geo = "fetching"
    /\ \/ /\ lookups' = [lookups EXCEPT !.geo = "reading"]
          /\ UNCHANGED <<dom, analyses>>
       \/ /\ lookups' = [lookups EXCEPT !.geo = "failed"]
          /\ dom' = [dom EXCEPT !.extLoc = LookupTimedOut]
          /\ analyses' = Append(analyses, startAiAnalysis(dom'))
    /\ UNCHANGED <<pc, callVars, workerVars, heapVars, bundled, pumpVars, script,
                   currentTargetId, pingData, measured, inFlight, pingInterval, timers,
                   issued, hidden, lastChange>>

\* index.js:564-570: r.json() settles.  With an object, the then handler
\* writes its place, or "未知" when it names none; with null, the handler
\* throws at d.city, and with an error (a body that is not JSON) it is
\* skipped: the catch writes its text.  The finally starts the analysis.
GeoJsonSettles ==
    /\ script = "running"
    /\ lookups.geo = "reading"
    /\ \/ \E loc \in {S("Osaka, Osaka, Japan"), <<>>} :
            /\ lookups' = [lookups EXCEPT !.geo = "answered"]
            /\ dom' = [dom EXCEPT !.extLoc = IF loc = <<>> THEN UnknownPlace ELSE loc]
       \/ /\ lookups' = [lookups EXCEPT !.geo = "failed"]
          /\ dom' = [dom EXCEPT !.extLoc = LookupTimedOut]
    /\ analyses' = Append(analyses, startAiAnalysis(dom'))
    /\ UNCHANGED <<pc, callVars, workerVars, heapVars, bundled, pumpVars, script,
                   currentTargetId, pingData, measured, inFlight, pingInterval, timers,
                   issued, hidden, lastChange>>

NextPage ==
    \/ Fetch
    \/ LoadPage
    \/ Ipv6Settles
    \/ Ipv4FetchSettles
    \/ Ipv4TextSettles
    \/ GeoFetchSettles
    \/ GeoJsonSettles

SpecPage == InitPage /\ [][NextPage]_vars

\* No lookup of the page is outstanding.
LookupsSettled ==
    /\ lookups.ipv4 \notin {"fetching", "reading"}
    /\ lookups.geo \notin {"fetching", "reading"}

\* C28: the page the browser has loaded starts the analysis at most once,
\* never while its IPv4 lookup is unsettled nor, when that gave an address,
\* while its geo lookup is unsettled; and once no lookup is outstanding it
\* has started it.
AnalysisStartedOncePerLoad ==
    pc = "page: loaded" =>
        /\ Len(analyses) <= 1
        /\ Len(analyses) = 1 => LookupsSettled
        /\ LookupsSettled => Len(analyses) = 1

\* The same of a page whose script runs.
AnalysisStartedOnceWhenScriptRuns ==
    script = "running" =>
        /\ Len(analyses) <= 1
        /\ Len(analyses) = 1 => LookupsSettled
        /\ LookupsSettled => Len(analyses) = 1

----------------------------------------------------------------------------
(* The ping monitor of a page whose script has run, index.js:622-648 and   *)
(* 761-800.                                                                *)

InitMonitor ==
    /\ pc = "page: loaded"
    /\ request = [method |-> "GET", path |-> "/", query |-> <<>>,
                  connectingIp |-> Str(S("203.0.113.7")), cf |-> CfExample,
                  body |-> [json |-> FALSE]]
    /\ env = [ZHIPU_API_KEY |-> Str(S("k3y.s3cret"))]
    /\ ran = <<"renderHTML">>
    /\ response = renderHTML(request)
    /\ upstream = <<>>
    /\ CallsIdle
    /\ HeapIdle
    /\ bundled = Undefined
    /\ stream = <<>>
    /\ delivered = 0
    /\ failing = FALSE
    /\ pending = <<>>
    /\ buffer = <<>>
    /\ output = <<>>
    /\ writerLog = <<>>
    /\ script = "running"
    /\ lookups = [ipv6 |-> "fetching", ipv4 |-> "fetching", geo |-> "not started"]
    /\ dom = [ipv6Addr |-> Querying, ipv4Addr |-> Querying, extLoc |-> Querying]
    /\ analyses = <<>>
    /\ currentTargetId = 1
    /\ pingData = Zeros(historyLimit)
    /\ measured = Zeros(historyLimit)
    /\ inFlight = [id \in PingTargetIds |-> IF id = 1 THEN 1 ELSE 0]
    /\ LET started == startMonitor({}, Null, 0)
       IN  /\ timers = started.timers
           /\ pingInterval = started.pingInterval
           /\ issued = started.issued
    /\ hidden \in BOOLEAN
    /\ lastChange = "none"

\* index.js:761-768, 792: an interval timer of the page fires and
\* doRealTimePing runs up to its await: it reads the target and fetches.
TimerFires ==
    /\ script = "running"
    /\ timers # {}
    /\ InFlightTotal < MaxInFlight
    /\ inFlight' = [inFlight EXCEPT ![currentTargetId] = @ + 1]
    /\ UNCHANGED <<pc, callVars, workerVars, heapVars, bundled, pumpVars, script, lookups,
                   dom, analyses, currentTargetId, pingData, measured, pingInterval,
                   timers, issued, hidden, lastChange>>

\* index.js:769-786: the fetch of a ping settles and doRealTimePing runs to
\* its end: it drops the oldest sample and adds the time it measured, 0 when
\* the fetch failed.
PingSettles ==
    /\ script = "running"
    /\ \E target \in PingTargetIds, dur \in Durations :
           /\ inFlight[target] > 0
           /\ inFlight' = [inFlight EXCEPT ![target] = @ - 1]
           /\ pingData' = Append(Tail(pingData), dur)
           /\ measured' = Append(Tail(measured), target)
    /\ UNCHANGED <<pc, callVars, workerVars, heapVars, bundled, pumpVars, script, lookups,
                   dom, analyses, currentTargetId, pingInterval, timers, issued, hidden,
                   lastChange>>

\* index.js:639-648
changePingTarget ==
    /\ script = "running"
    /\ \E id \in PingTargetIds :
           /\ currentTargetId' = id
           /\ pingData' = Zeros(Len(pingData))
           /\ measured' = Zeros(Len(measured))
    /\ UNCHANGED <<pc, callVars, workerVars, heapVars, bundled, pumpVars, script, lookups,
                   dom, analyses, inFlight, pingInterval, timers, issued, hidden,
                   lastChange>>

\* index.js:797-799: the page becomes hidden and the handler stops the
\* monitor, or it becomes visible and the handler starts it: startMonitor
\* pings at once and sets a timer.
VisibilityChange ==
    /\ script = "running"
    /\ hidden' = ~hidden
    /\ lastChange' = IF hidden' THEN "hidden" ELSE "visible"
    /\ IF hidden'
       THEN LET stopped == stopMonitor(timers, pingInterval, issued)
            IN  /\ timers' = stopped.timers
                /\ pingInterval' = stopped.pingInterval
                /\ issued' = stopped.issued
                /\ UNCHANGED inFlight
       ELSE /\ issued < MaxTimers
            /\ InFlightTotal < MaxInFlight
            /\ inFlight' = [inFlight EXCEPT ![currentTargetId] = @ + 1]
            /\ LET started == startMonitor(timers, pingInterval, issued)
               IN  /\ timers' = started.timers
                   /\ pingInterval' = started.pingInterval
                   /\ issued' = started.issued
    /\ UNCHANGED <<pc, callVars, workerVars, heapVars, bundled, pumpVars, script, lookups,
                   dom, analyses, currentTargetId, pingData, measured>>

NextMonitor == TimerFires \/ PingSettles \/ changePingTarget \/ VisibilityChange

SpecMonitor == InitMonitor /\ [][NextMonitor]_vars

\* C29: every sample of the history that is not 0 was measured against the
\* target the page was last switched to.
SamplesAreOfCurrentTarget ==
    script = "running" =>
        \A i \in 1..Len(pingData) : pingData[i] # 0 => measured[i] = currentTargetId

====
